---- MODULE Spec2Model ----
(***************************************************************************)
(* A model of the Observable polyfill of WICG/observable                   *)
(* (src/impl/observable.js; src/unnamed/part_000 is its TypeScript text).  *)
(*                                                                         *)
(* The program is single threaded: every entry into it (a call of          *)
(* subscribe(), a call a producer makes on the Subscriber it holds, an     *)
(* abort() of a caller's AbortController) runs to completion.  Each such   *)
(* entry is one action.  The synchronous work of an entry, including the   *)
(* user callbacks it runs and the calls those callbacks make back into the *)
(* program, is computed by the operators below on a record `st` that holds *)
(* the heap:                                                               *)
(*   st.sigs   the AbortSignals (aborted flag, "abort" listeners in order; *)
(*             of: the signals a merged signal was built from)            *)
(*   st.subs   the Subscribers (#active, #abortController.signal, #signal, *)
(*             _observer)                                                  *)
(*   st.cells  the closure variables of the operators' subscribe           *)
(*             procedures (remaining, seen, index, ...)                    *)
(*   st.log    what happened, in order (a history, read by the properties) *)
(*   st.exc    an exception is propagating (st.err is its value)           *)
(*   st.depth  nesting of user code on the stack                           *)
(*   st.h      what the user's handlers do when run during this entry      *)
(*   st.root   the top-level subscription the entry works for (history)    *)
(*                                                                         *)
(* User code (the subscribe procedure given to new Observable, the         *)
(* observer's handlers) is a script: a sequence of instructions            *)
(* [op, a], op one of "next", "error", "complete", "addTeardown" (a call   *)
(* on the Subscriber the user code holds) or "throw".                      *)
(*                                                                         *)
(* AbortController/AbortSignal/EventTarget are the host's; they are        *)
(* modelled as the DOM standard defines them: abort() is a no-op on an     *)
(* aborted signal, otherwise it sets the flag and dispatches "abort" to    *)
(* the listeners registered at that moment, in registration order; a       *)
(* listener added to an already aborted signal is never run; a listener    *)
(* that throws has its exception reported and the dispatch goes on.  No    *)
(* host defines AbortSignal.all (line 669), so useSignalAll is its         *)
(* fallback branch.                                                        *)
(*                                                                         *)
(* obs is the Observable that is subscribed to (new Observable(start), or  *)
(* an operator applied to one) and cfg the scenario: how many times it is  *)
(* subscribed, how many calls the producers make, what the user's handlers *)
(* may do.  Spec is one subscription to new Observable(start); SpecTake,   *)
(* SpecMap, SpecUntil, SpecCatch, SpecFlat and SpecSwitch are one          *)
(* subscription to source.take(n), .map(f), .takeUntil(notifier),          *)
(* .catch(f), .flatMap(f) and .switchMap(f); SpecOps is two subscriptions  *)
(* to an Observable built with map, filter, take, drop, flatMap or         *)
(* switchMap.  SpecReduce is one call of forEach, every, some, find,       *)
(* reduce or toArray: the Promise it returns is the number of the          *)
(* subscription, and the history records each call of the user's function  *)
(* and each call of resolve and reject.  SpecPull is one iterator made     *)
(* with source[Symbol.asyncIterator](), whose next(), throw() and return() *)
(* the consumer calls while the source emits.  SpecFrom is one             *)
(* subscription to Observable.from(x) or Observable.from(x).take(n), x an  *)
(* iterable or an async iterable; the history records each result the loop *)
(* takes from the iterator.                                                *)
(*                                                                         *)
(* A Promise is settled by the first call of its resolve or reject; the    *)
(* later calls do nothing.  The reactions to a Promise (then, await) are   *)
(* not part of the program and are not modelled, except the loop of        *)
(* from(async iterable), which resumes in a job of its own.                *)
(*                                                                         *)
(* The operators that model the program's functions call one another       *)
(* through invoke(name, arguments), defined after them.                    *)
(***************************************************************************)
EXTENDS Integers, Sequences, FiniteSets, TLC

VARIABLES sigs, subs, cells, log, obs, cfg

vars == <<sigs, subs, cells, log, obs, cfg>>

\* Bounds of the model.
MaxCalls == 3
MaxDepth == 3
NumTeardowns == 2
MaxCount == 2

Teardowns == 1..NumTeardowns

\* Error values: -1 is the error a producer passes to error(), -2 the
\* exception a user script throws.
I(op, a) == [op |-> op, a |-> a]

RECURSIVE invoke(_, _)
RECURSIVE dispatch(_, _, _, _)
RECURSIVE RunScript(_, _, _, _)
RECURSIVE RunIterable(_, _, _, _)

Log(st, ev) == [st EXCEPT !.log = Append(@, ev)]

SeqFilterOut(s, x) == SelectSeq(s, LAMBDA y : y # x)

InSeq(s, x) == \E i \in 1..Len(s) : s[i] = x

----------------------------------------------------------------------------
\* The host: EventTarget and AbortController.

NewSignal(st, isAborted, isExt) ==
    [st EXCEPT !.sigs = Append(@, [aborted |-> isAborted, listeners |-> <<>>,
                                   root |-> st.root, ext |-> isExt, of |-> <<>>])]

addEventListener(st, sig, l) ==
    IF InSeq(st.sigs[sig].listeners, l)
    THEN st
    ELSE [st EXCEPT !.sigs[sig].listeners = Append(@, l)]

removeEventListener(st, sig, l) ==
    [st EXCEPT !.sigs[sig].listeners = SeqFilterOut(@, l)]

reportError(st, err) == Log(st, [e |-> "report", a |-> err])

\* A teardown is a user function; running it is recorded.
RunTeardown(st, t, s) == Log(st, [e |-> "teardown", t |-> t, s |-> s])

\* Mutant: a listener of useSignalAll that stays attached to its inputs.
handleAbort_keep(st, l) == invoke("abort", <<st, l.ac>>)

\* The listener of useSignalAll: abort the merged controller, then detach
\* from every input.
handleAbort(st, l) ==
    LET st1 == invoke("abort", <<st, l.ac>>)
        st2 == removeEventListener(st1, l.s1, l)
    IN  removeEventListener(st2, l.s2, l)

\* The listeners of maybeFollowSignal (observable.ts): parentAbortHandler
\* aborts the following controller; the listener on that controller's own
\* signal takes parentAbortHandler off the signal followed.
parentAbortHandler(st, l) == invoke("abort", <<st, l.ac>>)

removeParent(st, l) ==
    removeEventListener(st, l.parent,
        [kind |-> "parentAbortHandler", ac |-> l.ac, once |-> TRUE])

InvokeListener(st, l) ==
    CASE l.kind = "teardown"           -> RunTeardown(st, l.t, l.s)
      [] l.kind = "parentAbortHandler" -> parentAbortHandler(st, l)
      [] l.kind = "removeParent"       -> removeParent(st, l)
      [] OTHER                         -> handleAbort(st, l)

dispatch(st, sig, snap, i) ==
    IF i > Len(snap)
    THEN st
    ELSE LET l == snap[i]
         IN  IF ~InSeq(st.sigs[sig].listeners, l)
             THEN dispatch(st, sig, snap, i + 1)
             ELSE LET st0 == IF l.once THEN removeEventListener(st, sig, l) ELSE st
                      st1 == InvokeListener(st0, l)
                      st2 == IF st1.exc
                             THEN reportError([st1 EXCEPT !.exc = FALSE], st1.err)
                             ELSE st1
                  IN  dispatch(st2, sig, snap, i + 1)

abort(st, sig) ==
    IF st.sigs[sig].aborted
    THEN st
    ELSE invoke("dispatch", <<[st EXCEPT !.sigs[sig].aborted = TRUE], sig,
                  st.sigs[sig].listeners, 1>>)

----------------------------------------------------------------------------
\* useSignalAll([a, b]): the merged signal is the last of the result's sigs.

\* Mutant: a merged signal that listens to the first signal only.
useSignalAll_first(st, a, b) ==
    LET st1 == NewSignal(st, FALSE, FALSE)
        m   == Len(st1.sigs)
        l   == [kind |-> "handleAbort", ac |-> m, s1 |-> a, s2 |-> b, once |-> FALSE]
    IN  addEventListener([st1 EXCEPT !.sigs[m].of = <<a, b>>], a, l)

useSignalAll(st, a, b) ==
    LET st1 == NewSignal(st, FALSE, FALSE)
        m   == Len(st1.sigs)
        l   == [kind |-> "handleAbort", ac |-> m, s1 |-> a, s2 |-> b, once |-> FALSE]
        st2 == [st1 EXCEPT !.sigs[m].of = <<a, b>>]
    IN  addEventListener(addEventListener(st2, a, l), b, l)

----------------------------------------------------------------------------
\* class Subscriber

\* Mutant: isActive that forgets the signal.
isActive_ownFlagOnly(st, s) == st.subs[s].active

isActive(st, s) == st.subs[s].active /\ ~st.sigs[st.subs[s].signal].aborted

\* new Subscriber(signal, observer); signal = 0 stands for undefined.  The
\* new Subscriber is the last of the result's subs.
NewSubscriber(st, signal, observer) ==
    LET st1 == NewSignal(st, FALSE, FALSE)
        own == Len(st1.sigs)
        st2 == IF signal # 0 THEN useSignalAll(st1, signal, own) ELSE st1
        sg  == IF signal # 0 THEN Len(st2.sigs) ELSE own
    IN  [st2 EXCEPT !.subs = Append(@, [active |-> TRUE, own |-> own, signal |-> sg,
                                        observer |-> observer, root |-> st.root,
                                        held |-> FALSE])]

\* Mutant: next() that passes the exception of the handler to error().
SubscriberNext_catch(st, s, v) ==
    IF isActive(st, s)
    THEN LET st1 == invoke("ObserverNext", <<st, st.subs[s].observer, v>>)
         IN  IF st1.exc
             THEN invoke("SubscriberError", <<[st1 EXCEPT !.exc = FALSE], s, st1.err>>)
             ELSE st1
    ELSE st

SubscriberNext(st, s, v) ==
    IF isActive(st, s)
    THEN invoke("ObserverNext", <<st, st.subs[s].observer, v>>)
    ELSE st

\* Mutant: error() that aborts its controller before it calls the handler.
SubscriberError_abortFirst(st, s, err) ==
    IF isActive(st, s)
    THEN LET st1 == invoke("abort", <<[st EXCEPT !.subs[s].active = FALSE], st.subs[s].own>>)
         IN  invoke("ObserverError", <<st1, st1.subs[s].observer, err>>)
    ELSE st

\* Mutant: error() that marks the Subscriber inactive after the handler ran.
SubscriberError_closeAfter(st, s, err) ==
    IF isActive(st, s)
    THEN LET st1 == invoke("ObserverError", <<st, st.subs[s].observer, err>>)
             st2 == [st1 EXCEPT !.subs[s].active = FALSE]
         IN  IF st1.exc THEN st2 ELSE invoke("abort", <<st2, st2.subs[s].own>>)
    ELSE st

SubscriberError(st, s, err) ==
    IF isActive(st, s)
    THEN LET st1 == [st EXCEPT !.subs[s].active = FALSE]
             st2 == invoke("ObserverError", <<st1, st1.subs[s].observer, err>>)
         IN  IF st2.exc THEN st2 ELSE invoke("abort", <<st2, st2.subs[s].own>>)
    ELSE st

\* Mutant: complete() that marks the Subscriber inactive after the handler
\* ran.
SubscriberComplete_closeAfter(st, s) ==
    IF isActive(st, s)
    THEN LET st1 == invoke("ObserverComplete", <<st, st.subs[s].observer>>)
             st2 == [st1 EXCEPT !.subs[s].active = FALSE]
         IN  IF st1.exc THEN st2 ELSE invoke("abort", <<st2, st2.subs[s].own>>)
    ELSE st

SubscriberComplete(st, s) ==
    IF isActive(st, s)
    THEN LET st1 == [st EXCEPT !.subs[s].active = FALSE]
             st2 == invoke("ObserverComplete", <<st1, st1.subs[s].observer>>)
         IN  IF st2.exc THEN st2 ELSE invoke("abort", <<st2, st2.subs[s].own>>)
    ELSE st

\* Mutant: addTeardown that always registers the listener.
addTeardown_alwaysListen(st, s, t) ==
    addEventListener(st, st.subs[s].own,
                     [kind |-> "teardown", t |-> t, s |-> s, once |-> TRUE])

addTeardown(st, s, t) ==
    IF isActive(st, s)
    THEN addEventListener(st, st.subs[s].own,
                          [kind |-> "teardown", t |-> t, s |-> s, once |-> TRUE])
    ELSE RunTeardown(st, t, s)

----------------------------------------------------------------------------
\* User code.

\* The Subscriber the user code of subscription r holds: the one its
\* subscribe procedure was given (0: none yet).
HeldOf(st, r) ==
    LET H == {s \in 1..Len(st.subs) : st.subs[s].held /\ st.subs[s].root = r}
    IN  IF H = {} THEN 0 ELSE CHOOSE s \in H : \A u \in H : s <= u

\* The k-th next() a producer makes on s carries the value k.
NextValue(st, s) ==
    1 + Cardinality({i \in 1..Len(st.log) :
            st.log[i].e = "call" /\ st.log[i].op = "next" /\ st.log[i].s = s})

\* The Subscribers of subscription r that flatMap / switchMap gave to an
\* inner Observable and that are active, and the values in flatMap's queue.
ActiveInners(st, r) ==
    {s \in 1..Len(st.subs) :
        /\ st.subs[s].root = r
        /\ st.subs[s].observer.kind \in {"flatMapInner", "switchMapInner"}
        /\ isActive(st, s)}

Queued(st, r) ==
    {c \in 1..Len(st.cells) :
        /\ st.cells[c].root = r
        /\ "queue" \in DOMAIN st.cells[c]
        /\ Len(st.cells[c].queue) > 0}

\* A call on Subscriber s made by user code or by the loop of
\* from(iterable) ("emit": next with the value given).  The history records
\* the call (with whether s was active, how many inner Subscribers were
\* active and whether values were queued when it was made) and, for
\* addTeardown, its return.
Call(st, op, s, a) ==
    LET v   == IF op = "next" THEN NextValue(st, s) ELSE a
        st1 == Log(st, [e |-> "call", op |-> IF op = "emit" THEN "next" ELSE op,
                        s |-> s, a |-> v, d |-> st.depth, act |-> isActive(st, s),
                        inn |-> Cardinality(ActiveInners(st, st.subs[s].root)),
                        q |-> Queued(st, st.subs[s].root) # {}])
    IN  CASE op \in {"next", "emit"} -> invoke("SubscriberNext", <<st1, s, v>>)
          [] op = "error"            -> invoke("SubscriberError", <<st1, s, v>>)
          [] op = "complete"         -> invoke("SubscriberComplete", <<st1, s>>)
          [] op = "addTeardown"      -> Log(invoke("addTeardown", <<st1, s, v>>), [e |-> "ret"])

RunScript(st, sc, ctx, i) ==
    IF i > Len(sc) \/ st.exc
    THEN st
    ELSE LET ins == sc[i]
             st1 == CASE ins.op = "throw" ->
                            [Log(st, [e |-> "throw", d |-> st.depth])
                                EXCEPT !.exc = TRUE, !.err = -2]
                      [] ctx = 0          -> st
                      [] OTHER            -> invoke("Call", <<st, ins.op, ctx, ins.a>>)
         IN  RunScript(st1, sc, ctx, i + 1)

\* A handler of the user's observer of subscription ob.id runs.
UserHandler(st, h, ob, a) ==
    LET st1 == Log(st, [e |-> "handler", h |-> h, o |-> ob.id, a |-> a, d |-> st.depth])
        sc  == IF h = "next" THEN st.h.next ELSE st.h.term
    IN  IF st.depth >= MaxDepth
        THEN Log(st1, [e |-> "truncated"])
        ELSE LET st2 == invoke("RunScript", <<[st1 EXCEPT !.depth = @ + 1], sc, HeldOf(st1, ob.id), 1>>)
             IN  [st2 EXCEPT !.depth = st.depth]

----------------------------------------------------------------------------
\* Observable.from(value).  A value is an Observable (returned as it is),
\* an iterable [op |-> "iterable", values |-> <<...>>] or an async iterable
\* [op |-> "asyncIterable", values |-> <<...>>].
from(value) ==
    CASE value.op = "asyncIterable" -> [op |-> "fromAsyncIterable", values |-> value.values]
      [] value.op = "iterable"      -> [op |-> "fromIterable", values |-> value.values]
      [] OTHER                      -> value

\* The loop asks the iterator of the values for its i-th result, which is
\* a value or, past the last one, done.  The history records whether
\* Subscriber s was active then.
Iterate(st, s, vals, i) ==
    Log(st, [e |-> "iterate", s |-> s, i |-> i, done |-> (i > Len(vals)),
             act |-> isActive(st, s)])

\* The subscribe procedure of from(iterable): the loop from its i-th value
\* on, then complete(); an exception thrown inside is passed to error().
RunIterable(st, s, vals, i) ==
    LET st0 == Iterate(st, s, vals, i)
        st1 == IF i > Len(vals)
               THEN invoke("Call", <<st0, "complete", s, 0>>)
               ELSE IF isActive(st0, s) THEN invoke("Call", <<st0, "emit", s, vals[i]>>) ELSE st0
    IN  CASE st1.exc       -> invoke("Call", <<[st1 EXCEPT !.exc = FALSE], "error", s, st1.err>>)
          [] i > Len(vals) -> st1
          [] OTHER         -> RunIterable(st1, s, vals, i + 1)

\* The subscribe procedure of from(async iterable), an async function: it
\* runs up to its first await, the first result of the iterator, and the
\* cell keeps where it stands.
StartForAwait(st, O, s) ==
    [Iterate(st, s, O.values, 1) EXCEPT
        !.cells = Append(@, [forAwait |-> TRUE, s |-> s, vals |-> O.values, pos |-> 1,
                             running |-> TRUE, root |-> st.root])]

\* The async function resumes with the result it awaited: done ends the
\* loop and complete() is called; a value is passed to next() and the loop
\* awaits the following result.  An exception thrown inside is passed to
\* error().
ResumeForAwait(st, c) ==
    LET b   == st.cells[c]
        st1 == IF b.pos > Len(b.vals)
               THEN invoke("Call", <<st, "complete", b.s, 0>>)
               ELSE invoke("Call", <<st, "emit", b.s, b.vals[b.pos]>>)
    IN  CASE st1.exc ->
                invoke("Call", <<[st1 EXCEPT !.exc = FALSE, !.cells[c].running = FALSE],
                                 "error", b.s, st1.err>>)
          [] b.pos > Len(b.vals) ->
                [st1 EXCEPT !.cells[c].running = FALSE]
          [] OTHER ->
                Iterate([st1 EXCEPT !.cells[c].pos = @ + 1], b.s, b.vals, b.pos + 1)

\* subscribe(destination, ...): the observer subscribe() makes of a
\* Subscriber instance.  The spread copies its own enumerable properties
\* (_observer); next, error and complete are methods of the prototype and
\* are not copied, so noop, reportError and noop stay.
ObserverOfSubscriber(dest) == [kind |-> "default", of |-> dest]

----------------------------------------------------------------------------
\* The operators.  Each returns new Observable((destination) => {...}): the
\* subscribe procedure makes its closure variables (a cell) and subscribes
\* a relay observer to the source with {signal: destination.signal}.

NewCell_perObservable(st, c) ==
    IF Len(st.cells) > 0 THEN st ELSE [st EXCEPT !.cells = Append(@, c @@ [root |-> st.root])]

NewCell(st, c) == [st EXCEPT !.cells = Append(@, c @@ [root |-> st.root])]

Relay(st, O, dest, kind, c) ==
    LET st1 == NewCell(st, c)
    IN  invoke("subscribe", <<st1, O.source,
                  [kind |-> kind, dest |-> dest, cell |-> Len(st1.cells), O |-> O],
                  st1.subs[dest].signal>>)

\* The user's project / predicate function is called with (value, index++).
\* What it does is st.h.project: "throw", or return ("ok": map's result,
\* filter's true, flatMap/switchMap's inner Observable; "reject": filter's
\* false).
CallProject(st, c, v) ==
    LET st1 == [st EXCEPT !.cells[c].index = @ + 1]
    IN  Log(st1, [e |-> "project", r |-> st.cells[c].root, a |-> v,
                  i |-> st.cells[c].index, res |-> st.h.project])

\* The value a map projection returns: it shows both of its arguments.
Project(v, i) == 10 * v + i

mapNext(st, ob, v) ==
    LET st1 == CallProject(st, ob.cell, v)
    IN  IF st.h.project = "throw"
        THEN invoke("SubscriberError", <<st1, ob.dest, -2>>)
        ELSE invoke("SubscriberNext", <<st1, ob.dest, Project(v, st.cells[ob.cell].index)>>)

map(st, O, dest) == Relay(st, O, dest, "map", [index |-> 0])

filterNext(st, ob, v) ==
    LET st1 == CallProject(st, ob.cell, v)
    IN  CASE st.h.project = "throw" -> invoke("SubscriberError", <<st1, ob.dest, -2>>)
          [] st.h.project = "ok"    -> invoke("SubscriberNext", <<st1, ob.dest, v>>)
          [] OTHER                  -> st1

filter(st, O, dest) == Relay(st, O, dest, "filter", [index |-> 0])

takeNext(st, ob, v) ==
    LET c   == ob.cell
        st1 == [st EXCEPT !.cells[c].remaining = @ - 1]
        st2 == IF st1.cells[c].remaining >= 0
               THEN invoke("SubscriberNext", <<st1, ob.dest, v>>)
               ELSE st1
    IN  IF st2.exc THEN st2
        ELSE IF st2.cells[c].remaining = 0
             THEN invoke("SubscriberComplete", <<st2, ob.dest>>)
             ELSE st2

take(st, O, dest) == Relay(st, O, dest, "take", [remaining |-> O.count])

dropNext(st, ob, v) ==
    LET st1 == [st EXCEPT !.cells[ob.cell].seen = @ + 1]
    IN  IF st1.cells[ob.cell].seen > ob.O.count
        THEN invoke("SubscriberNext", <<st1, ob.dest, v>>)
        ELSE st1

drop(st, O, dest) == Relay(st, O, dest, "drop", [seen |-> 0])

\* What project(value, index) of flatMap / switchMap returns: the
\* Observable O.inner, or for "iterableOf" Observable.from([10v, 10v + 1]).
ProjectInner(O, v) ==
    IF O.inner.op = "iterableOf"
    THEN from([op |-> "iterable", values |-> <<10 * v, 10 * v + 1>>])
    ELSE O.inner

\* flatMap.  innerAC = 0 stands for undefined.
startInner(st, ob, v) ==
    LET c   == ob.cell
        st1 == NewSignal(st, FALSE, FALSE)
        ac  == Len(st1.sigs)
        st2 == useSignalAll([st1 EXCEPT !.cells[c].innerAC = ac], ac,
                            st1.subs[ob.dest].signal)
        st3 == CallProject(st2, c, v)
    IN  IF st.h.project = "throw"
        THEN invoke("SubscriberError", <<st3, ob.dest, -2>>)
        ELSE invoke("subscribe", <<st3, from(ProjectInner(ob.O, v)),
                       [ob EXCEPT !.kind = "flatMapInner"], Len(st2.sigs)>>)

flatMapNext_noQueue(st, ob, v) == startInner(st, ob, v)

flatMapNext(st, ob, v) ==
    IF st.cells[ob.cell].innerAC # 0
    THEN [st EXCEPT !.cells[ob.cell].queue = Append(@, v)]
    ELSE startInner(st, ob, v)

flatMapComplete(st, ob) ==
    LET st1 == [st EXCEPT !.cells[ob.cell].outerComplete = TRUE]
    IN  IF Len(st1.cells[ob.cell].queue) = 0
        THEN invoke("SubscriberComplete", <<st1, ob.dest>>)
        ELSE st1

flatMapInnerComplete(st, ob) ==
    LET c   == ob.cell
        st1 == [st EXCEPT !.cells[c].innerAC = 0]
    IN  CASE Len(st1.cells[c].queue) > 0 ->
                startInner([st1 EXCEPT !.cells[c].queue = Tail(@)], ob,
                           Head(st1.cells[c].queue))
          [] st1.cells[c].outerComplete  -> invoke("SubscriberComplete", <<st1, ob.dest>>)
          [] OTHER                       -> st1

flatMap(st, O, dest) ==
    Relay(st, O, dest, "flatMap",
          [queue |-> <<>>, index |-> 0, innerAC |-> 0, outerComplete |-> FALSE])

\* switchMap
switchMapNext_noAbort(st, ob, v) ==
    LET c   == ob.cell
        st1 == NewSignal(st, FALSE, FALSE)
        ac  == Len(st1.sigs)
        st2 == useSignalAll([st1 EXCEPT !.cells[c].innerAC = ac], ac,
                            st1.subs[ob.dest].signal)
        st3 == CallProject(st2, c, v)
    IN  IF st.h.project = "throw"
        THEN invoke("SubscriberError", <<st3, ob.dest, -2>>)
        ELSE invoke("subscribe", <<st3, from(ProjectInner(ob.O, v)),
                       [ob EXCEPT !.kind = "switchMapInner"], Len(st2.sigs)>>)

switchMapNext(st, ob, v) ==
    LET c   == ob.cell
        st0 == IF st.cells[c].innerAC # 0 THEN invoke("abort", <<st, st.cells[c].innerAC>>) ELSE st
        st1 == NewSignal(st0, FALSE, FALSE)
        ac  == Len(st1.sigs)
        st2 == useSignalAll([st1 EXCEPT !.cells[c].innerAC = ac], ac,
                            st1.subs[ob.dest].signal)
        st3 == CallProject(st2, c, v)
    IN  IF st.h.project = "throw"
        THEN invoke("SubscriberError", <<st3, ob.dest, -2>>)
        ELSE invoke("subscribe", <<st3, from(ProjectInner(ob.O, v)),
                       [ob EXCEPT !.kind = "switchMapInner"], Len(st2.sigs)>>)

switchMapComplete_eager(st, ob) ==
    invoke("SubscriberComplete", <<[st EXCEPT !.cells[ob.cell].outerComplete = TRUE], ob.dest>>)

switchMapComplete(st, ob) ==
    LET st1 == [st EXCEPT !.cells[ob.cell].outerComplete = TRUE]
    IN  IF st1.cells[ob.cell].innerAC = 0
        THEN invoke("SubscriberComplete", <<st1, ob.dest>>)
        ELSE st1

switchMapInnerComplete(st, ob) ==
    LET st1 == [st EXCEPT !.cells[ob.cell].innerAC = 0]
    IN  IF st1.cells[ob.cell].outerComplete
        THEN invoke("SubscriberComplete", <<st1, ob.dest>>)
        ELSE st1

switchMap(st, O, dest) ==
    Relay(st, O, dest, "switchMap",
          [index |-> 0, outerComplete |-> FALSE, innerAC |-> 0])

\* takeUntil: the notifier's observer.
notifierNext_forward(st, ob) == invoke("ObserverNext", <<st, st.subs[ob.dest].observer, 0>>)

notifierNext(st, ob) == invoke("SubscriberComplete", <<st, ob.dest>>)

takeUntil(st, O, dest) ==
    LET st1 == invoke("subscribe", <<st, from(O.notifier),
                         [kind |-> "takeUntilNotifier", dest |-> dest],
                         st.subs[dest].signal>>)
    IN  IF st1.exc
        THEN st1
        ELSE invoke("subscribe", <<st1, O.source, ObserverOfSubscriber(dest), st1.subs[dest].signal>>)

\* catch: the relay's error handler.  handleError(error) is the user's:
\* st.h.project says whether it returns the replacement or throws.
catchError(st, ob, err) ==
    LET st1 == Log(st, [e |-> "handle", r |-> st.subs[ob.dest].root, a |-> err,
                        res |-> st.h.project])
    IN  IF st.h.project = "throw"
        THEN [st1 EXCEPT !.exc = TRUE, !.err = -2]
        ELSE invoke("subscribe", <<st1, from(ob.O.inner), ObserverOfSubscriber(ob.dest),
                       st1.subs[ob.dest].signal>>)

catch(st, O, dest) ==
    invoke("subscribe", <<st, O.source, [kind |-> "catch", dest |-> dest, O |-> O],
              st.subs[dest].signal>>)

----------------------------------------------------------------------------
\* The terminal reducers.  Each returns new Promise((resolve, reject) =>
\* {...}); the Promise of the reducer called for subscription r is Promise
\* r.  The history records every call of resolve and reject, with the
\* handler that made it.

\* The value of a variable never assigned, and the Error("Value not
\* found") of find.
undefined == -3

NotFound == -4

resolve(st, p, v, h) == Log(st, [e |-> "resolve", p |-> p, v |-> v, h |-> h])

reject(st, p, err, h) == Log(st, [e |-> "reject", p |-> p, v |-> err, h |-> h])

\* The user's function (callback, predicate or reducer) is called with
\* value v and index i.  Its body is the script st.h.next, which may call
\* the Subscriber the user's producer holds or throw; st.h.project is what
\* it does then: "throw", or return truthy ("ok") or falsy ("reject").
\* The history records the call and how it ended.
CallBack(st, c, v, i) ==
    LET r   == st.cells[c].root
        st1 == Log(st, [e |-> "callback", r |-> r, a |-> v, i |-> i])
        st2 == IF st.depth >= MaxDepth
               THEN Log(st1, [e |-> "truncated"])
               ELSE LET st3 == invoke("RunScript", <<[st1 EXCEPT !.depth = @ + 1],
                                        st.h.next, HeldOf(st1, r), 1>>)
                    IN  [st3 EXCEPT !.depth = st.depth]
        st4 == IF ~st2.exc /\ st.h.project = "throw"
               THEN [st2 EXCEPT !.exc = TRUE, !.err = -2]
               ELSE st2
    IN  Log(st4, [e |-> "returned", r |-> r, a |-> v,
                  res |-> IF st4.exc THEN "throw" ELSE st.h.project])

\* catch (error) { reject(error); ac.abort(); return; }
RejectAndAbort(st, c) ==
    invoke("abort", <<reject([st EXCEPT !.exc = FALSE], st.cells[c].p, st.err, "next"),
                      st.cells[c].ac>>)

ResolveAndAbort(st, c, v) ==
    invoke("abort", <<resolve(st, st.cells[c].p, v, "next"), st.cells[c].ac>>)

forEachNext(st, ob, v) ==
    LET st1 == CallBack(st, ob.cell, v, 0)
    IN  IF st1.exc THEN RejectAndAbort(st1, ob.cell) ELSE st1

\* predicate(value, index++); true is 1 and false is 0.
Predicate(st, ob, v) ==
    CallBack([st EXCEPT !.cells[ob.cell].index = @ + 1], ob.cell, v,
             st.cells[ob.cell].index)

everyNext(st, ob, v) ==
    LET st1 == Predicate(st, ob, v)
    IN  CASE st1.exc                 -> RejectAndAbort(st1, ob.cell)
          [] st.h.project = "reject" -> ResolveAndAbort(st1, ob.cell, 0)
          [] OTHER                   -> st1

someNext(st, ob, v) ==
    LET st1 == Predicate(st, ob, v)
    IN  CASE st1.exc             -> RejectAndAbort(st1, ob.cell)
          [] st.h.project = "ok" -> ResolveAndAbort(st1, ob.cell, 1)
          [] OTHER               -> st1

\* Mutant: find that resolves with the index of the value.
findNext_index(st, ob, v) ==
    LET st1 == Predicate(st, ob, v)
    IN  CASE st1.exc             -> RejectAndAbort(st1, ob.cell)
          [] st.h.project = "ok" -> ResolveAndAbort(st1, ob.cell, st.cells[ob.cell].index)
          [] OTHER               -> st1

findNext(st, ob, v) ==
    LET st1 == Predicate(st, ob, v)
    IN  CASE st1.exc             -> RejectAndAbort(st1, ob.cell)
          [] st.h.project = "ok" -> ResolveAndAbort(st1, ob.cell, v)
          [] OTHER               -> st1

\* The reducer function, had toArray put each value at the front.
Reducer_unshift(f, acc, v) ==
    CASE f = "sum"    -> acc + v
      [] f = "digits" -> 10 * acc + v
      [] f = "push"   -> <<v>> \o acc

\* What the reducer function returns: the sum, the digits of its
\* arguments in the order they came, or (toArray) the array with the value
\* pushed.  "sum" and "digits" are functions of the user, "push" is
\* toArray's own.
Reducer(f, acc, v) ==
    CASE f = "sum"    -> acc + v
      [] f = "digits" -> 10 * acc + v
      [] f = "push"   -> Append(acc, v)

\* reduce, had it no `hasState`: the reducer is called on the first value
\* too, with the unset initial value.
reduceNext_noSeed(st, ob, v) ==
    LET c   == ob.cell
        st1 == CallBack([st EXCEPT !.cells[c].index = @ + 1], c, v, st.cells[c].index)
    IN  IF st1.exc
        THEN RejectAndAbort(st1, c)
        ELSE [st1 EXCEPT !.cells[c].state = Reducer(ob.O.reducer, st.cells[c].state, v),
                         !.cells[c].hasState = TRUE]

reduceNext(st, ob, v) ==
    LET c == ob.cell
    IN  IF st.cells[c].hasState
        THEN LET st0 == [st EXCEPT !.cells[c].index = @ + 1]
                  st1 == IF ob.O.reducer = "push"
                         THEN st0
                         ELSE CallBack(st0, c, v, st.cells[c].index)
             IN  IF st1.exc
                 THEN RejectAndAbort(st1, c)
                 ELSE [st1 EXCEPT !.cells[c].state = Reducer(ob.O.reducer, st.cells[c].state, v),
                                  !.cells[c].hasState = TRUE]
        ELSE [st EXCEPT !.cells[c].state = v, !.cells[c].hasState = TRUE]

\* error: reject
reducerError(st, ob, err) == reject(st, st.cells[ob.cell].p, err, "error")

\* complete of the observer of each reducer.
reducerComplete(st, ob) ==
    LET p == st.cells[ob.cell].p
    IN  CASE ob.kind = "forEach" -> resolve(st, p, undefined, "complete")
          [] ob.kind = "every"   -> resolve(st, p, 1, "complete")
          [] ob.kind = "some"    -> resolve(st, p, 0, "complete")
          [] ob.kind = "find"    -> reject(st, p, NotFound, "complete")
          [] ob.kind = "reduce"  -> resolve(st, p, st.cells[ob.cell].state, "complete")

Reducers == {"forEach", "every", "some", "find", "reduce"}

\* The executor of the Promise a reducer returns; x is options.signal (0:
\* none).  O.seeded is `arguments.length >= 2` of reduce and O.seed its
\* initialValue.  An exception that leaves the executor rejects the
\* Promise.
reducer(st, O, x) ==
    LET st1 == NewSignal(st, FALSE, FALSE)
        ac  == Len(st1.sigs)
        st2 == IF x # 0 THEN useSignalAll(st1, ac, x) ELSE st1
        st3 == NewCell(st2, IF O.op = "reduce"
                            THEN [index |-> 0, hasState |-> O.seeded, state |-> O.seed,
                                  ac |-> ac, p |-> st.root]
                            ELSE [index |-> 0, ac |-> ac, p |-> st.root])
        st4 == invoke("subscribe", <<st3, O.source,
                         [kind |-> O.op, cell |-> Len(st3.cells), O |-> O],
                         Len(st2.sigs)>>)
    IN  IF st4.exc
        THEN reject([st4 EXCEPT !.exc = FALSE], st.root, st4.err, "executor")
        ELSE st4

\* toArray(options) is this.reduce(push, [], options).
toArray(source) ==
    [op |-> "reduce", reducer |-> "push", seeded |-> TRUE, seed |-> <<>>, source |-> source]

----------------------------------------------------------------------------
\* The draft in TypeScript (observable.ts): its Subscriber, subscribe and
\* reduce.  O.options is the third argument of reduce: "undefined" (not
\* passed), "none" (an object without signal) or "live" (an object with
\* the signal of a controller).

\* The TypeError of reading a property of undefined.
TypeError == -6

maybeFollowSignal(st, ac, signal) ==
    IF signal = 0
    THEN st
    ELSE LET st1 == addEventListener(st, signal,
                        [kind |-> "parentAbortHandler", ac |-> ac, once |-> TRUE])
         IN  addEventListener(st1, ac,
                        [kind |-> "removeParent", ac |-> ac, parent |-> signal,
                         once |-> FALSE])

\* new Subscriber(signal, observer) of the draft: `closed` is #stopped or
\* the own signal aborted, and `signal` is the own signal.
NewSubscriber_ts(st, signal, observer) ==
    LET st1 == NewSignal(st, FALSE, FALSE)
        own == Len(st1.sigs)
        st2 == maybeFollowSignal(st1, own, signal)
    IN  [st2 EXCEPT !.subs = Append(@, [active |-> TRUE, own |-> own, signal |-> own,
                                        observer |-> observer, root |-> st.root,
                                        held |-> FALSE])]

\* subscribe(options) of the draft, for an observer with its three handlers.
subscribe_ts(st, O, observer, signal) ==
    LET st1 == NewSubscriber_ts(st, signal, observer)
    IN  invoke("start", <<st1, O, Len(st1.subs)>>)

\* next of the observer of reduce in the draft: hasState is left as it is.
reduceNext_ts(st, ob, v) ==
    LET c == ob.cell
    IN  IF st.cells[c].hasState
        THEN LET st1 == CallBack([st EXCEPT !.cells[c].index = @ + 1], c, v,
                                 st.cells[c].index)
             IN  IF st1.exc
                 THEN RejectAndAbort(st1, c)
                 ELSE [st1 EXCEPT !.cells[c].state = Reducer(ob.O.reducer, st.cells[c].state, v)]
        ELSE [st EXCEPT !.cells[c].state = v]

reducerError_ts(st, ob, err) == reject(st, st.cells[ob.cell].p, err, "error")

reducerComplete_ts(st, ob) ==
    resolve(st, st.cells[ob.cell].p, st.cells[ob.cell].state, "complete")

\* The executor of the Promise reduce returns in the draft; x is
\* options.signal (0: none).  `options.signal` throws when options is
\* undefined, and an exception that leaves the executor rejects the Promise.
reduce_ts(st, O, x) ==
    LET st1 == NewSignal(st, FALSE, FALSE)
        ac  == Len(st1.sigs)
    IN  IF O.options = "undefined"
        THEN reject(st1, st.root, TypeError, "executor")
        ELSE LET st2 == maybeFollowSignal(st1, ac, x)
                 st3 == NewCell(st2, [index |-> 0, hasState |-> O.seeded, state |-> O.seed,
                                      ac |-> ac, p |-> st.root])
                 st4 == subscribe_ts(st3, O.source,
                                     [kind |-> "reduce_ts", cell |-> Len(st3.cells), O |-> O],
                                     ac)
             IN  IF st4.exc
                 THEN reject([st4 EXCEPT !.exc = FALSE], st.root, st4.err, "executor")
                 ELSE st4

----------------------------------------------------------------------------
\* [Symbol.asyncIterator](): the iterator that pulls the values of an
\* Observable.  Its closure variables are a cell; `pulls` counts the calls
\* of next(), and the Promise the k-th call returns is Promise k, the
\* [resolve, reject] pair that `deferred` holds for it.  Promise 0 is the
\* one throw() or return() returns.  The events are
\*   [e |-> "iterator", m, p, a]       next(), throw(a) or return() called
\*   [e |-> "resolve", p, v, done, h]  Promise p resolved with {value: v, done}
\*   [e |-> "reject", p, v, h]         Promise p rejected with v
\* where h is the place of the call: "pull" (next()), "next" and "error"
\* (the observer), "throw", "return", "executor" (an exception left the
\* executor).

\* The error the consumer passes to throw().
Forced == -5

asyncIterator ==
    [ac |-> 0, deferred |-> <<>>, buffer |-> <<>>, hasError |-> FALSE,
     error |-> undefined, isComplete |-> FALSE, pulls |-> 0, root |-> 1]

resolveResult(st, p, v, done, h) ==
    Log(st, [e |-> "resolve", p |-> p, v |-> v, done |-> done, h |-> h])

\* reject(err) on each pair of ds, in order.
RejectEach(st, ds, err, h) ==
    LET F[i \in 0..Len(ds)] == IF i = 0 THEN st ELSE reject(F[i - 1], ds[i], err, h)
    IN  F[Len(ds)]

\* resolve({value: undefined, done: true}) on each pair of ds, in order.
ResolveEach(st, ds, h) ==
    LET F[i \in 0..Len(ds)] ==
            IF i = 0 THEN st ELSE resolveResult(F[i - 1], ds[i], undefined, TRUE, h)
    IN  F[Len(ds)]

\* next(value) of the observer the iterator subscribes.
iteratorObserverNext(st, ob, v) ==
    LET c == ob.cell
        d == st.cells[c].deferred
    IN  IF Len(d) > 0
        THEN resolveResult([st EXCEPT !.cells[c].deferred = Tail(@)], Head(d), v, FALSE, "next")
        ELSE [st EXCEPT !.cells[c].buffer = Append(@, v)]

\* error(err) of that observer.
iteratorObserverError(st, ob, err) ==
    LET c == ob.cell
    IN  IF Len(st.cells[c].buffer) > 0
        THEN [st EXCEPT !.cells[c].hasError = TRUE, !.cells[c].error = err]
        ELSE RejectEach([st EXCEPT !.cells[c].deferred = <<>>], st.cells[c].deferred,
                        err, "error")

\* complete() {}
iteratorObserverComplete(st, ob) == st

\* iterator.next(): the executor of the Promise it returns.
iteratorNext(st, O, c) ==
    LET b   == st.cells[c]
        k   == b.pulls + 1
        st0 == Log([st EXCEPT !.cells[c].pulls = k],
                   [e |-> "iterator", m |-> "next", p |-> k, a |-> 0])
    IN  CASE Len(b.buffer) > 0 ->
                resolveResult([st0 EXCEPT !.cells[c].buffer = Tail(@)], k, Head(b.buffer),
                              FALSE, "pull")
          [] Len(b.buffer) = 0 /\ b.hasError ->
                reject(st0, k, b.error, "pull")
          [] Len(b.buffer) = 0 /\ ~b.hasError /\ b.isComplete ->
                resolveResult(st0, k, undefined, TRUE, "pull")
          [] OTHER ->
                LET st1 == NewSignal(st0, FALSE, FALSE)
                    ac  == Len(st1.sigs)
                    st2 == Log([st1 EXCEPT !.cells[c].ac = ac],
                               [e |-> "subscribe", r |-> st.root, x |-> ac, pre |-> FALSE])
                    st3 == IF b.ac = 0
                           THEN invoke("subscribe", <<st2, O.source,
                                          [kind |-> "asyncIterator", cell |-> c], ac>>)
                           ELSE st0
                IN  IF st3.exc
                    THEN reject([st3 EXCEPT !.exc = FALSE], k, st3.err, "executor")
                    ELSE [st3 EXCEPT !.cells[c].deferred = Append(@, k)]

\* iterator.throw(err): the executor of the Promise it returns.
iteratorThrow(st, c, err) ==
    LET b   == st.cells[c]
        st0 == Log(st, [e |-> "iterator", m |-> "throw", p |-> 0, a |-> err])
        st1 == IF b.ac # 0 THEN invoke("abort", <<st0, b.ac>>) ELSE st0
        st2 == [st1 EXCEPT !.cells[c].hasError = TRUE, !.cells[c].error = err]
    IN  IF st1.exc
        THEN reject([st1 EXCEPT !.exc = FALSE], 0, st1.err, "executor")
        ELSE reject(RejectEach(st2, st2.cells[c].deferred, err, "throw"), 0, err, "throw")

\* iterator.return(): the executor of the Promise it returns.
iteratorReturn(st, c) ==
    LET b   == st.cells[c]
        st0 == Log(st, [e |-> "iterator", m |-> "return", p |-> 0, a |-> 0])
        st1 == IF b.ac # 0 THEN invoke("abort", <<st0, b.ac>>) ELSE st0
        st2 == [st1 EXCEPT !.cells[c].isComplete = TRUE]
    IN  IF st1.exc
        THEN reject([st1 EXCEPT !.exc = FALSE], 0, st1.err, "executor")
        ELSE resolveResult(ResolveEach(st2, st2.cells[c].deferred, "return"),
                           0, undefined, TRUE, "return")

----------------------------------------------------------------------------
\* The observer a Subscriber holds: the user's, as subscribe() normalized
\* it (handlers the user did not pass are noop, or reportError for error),
\* or the relay of an operator.

ObserverNext(st, ob, v) ==
    CASE ob.kind = "user"      -> UserHandler(st, "next", ob, v)
      [] ob.kind = "default"   -> st
      [] ob.kind = "map"       -> mapNext(st, ob, v)
      [] ob.kind = "filter"    -> filterNext(st, ob, v)
      [] ob.kind = "take"      -> takeNext(st, ob, v)
      [] ob.kind = "drop"      -> dropNext(st, ob, v)
      [] ob.kind = "flatMap"   -> flatMapNext(st, ob, v)
      [] ob.kind = "switchMap" -> switchMapNext(st, ob, v)
      [] ob.kind = "takeUntilNotifier" -> notifierNext(st, ob)
      [] ob.kind = "forEach"   -> forEachNext(st, ob, v)
      [] ob.kind = "every"     -> everyNext(st, ob, v)
      [] ob.kind = "some"      -> someNext(st, ob, v)
      [] ob.kind = "find"      -> findNext(st, ob, v)
      [] ob.kind = "reduce"    -> reduceNext(st, ob, v)
      [] ob.kind = "reduce_ts" -> reduceNext_ts(st, ob, v)
      [] ob.kind = "asyncIterator" -> iteratorObserverNext(st, ob, v)
      [] OTHER                 -> invoke("SubscriberNext", <<st, ob.dest, v>>)

ObserverError(st, ob, err) ==
    CASE ob.kind = "user"    -> UserHandler(st, "error", ob, err)
      [] ob.kind = "default" -> reportError(st, err)
      [] ob.kind = "catch"   -> catchError(st, ob, err)
      [] ob.kind \in Reducers -> reducerError(st, ob, err)
      [] ob.kind = "reduce_ts" -> reducerError_ts(st, ob, err)
      [] ob.kind = "asyncIterator" -> iteratorObserverError(st, ob, err)
      [] OTHER               -> invoke("SubscriberError", <<st, ob.dest, err>>)

ObserverComplete(st, ob) ==
    CASE ob.kind = "user"           -> UserHandler(st, "complete", ob, 0)
      [] ob.kind = "default"        -> st
      [] ob.kind = "flatMap"        -> flatMapComplete(st, ob)
      [] ob.kind = "flatMapInner"   -> flatMapInnerComplete(st, ob)
      [] ob.kind = "switchMap"      -> switchMapComplete(st, ob)
      [] ob.kind = "switchMapInner" -> switchMapInnerComplete(st, ob)
      [] ob.kind = "takeUntilNotifier" -> st
      [] ob.kind \in Reducers        -> reducerComplete(st, ob)
      [] ob.kind = "reduce_ts"      -> reducerComplete_ts(st, ob)
      [] ob.kind = "asyncIterator"  -> iteratorObserverComplete(st, ob)
      [] OTHER                      -> invoke("SubscriberComplete", <<st, ob.dest>>)

----------------------------------------------------------------------------
\* class Observable

\* this.start(subscriber)
start(st, O, s) ==
    CASE O.op = "new"       ->
            LET st1 == [st EXCEPT !.subs[s].held = TRUE, !.depth = @ + 1]
                st2 == invoke("RunScript", <<st1, O.start, s, 1>>)
            IN  [st2 EXCEPT !.depth = st.depth]
      [] O.op = "map"       -> map(st, O, s)
      [] O.op = "filter"    -> filter(st, O, s)
      [] O.op = "take"      -> take(st, O, s)
      [] O.op = "drop"      -> drop(st, O, s)
      [] O.op = "flatMap"   -> flatMap(st, O, s)
      [] O.op = "switchMap" -> switchMap(st, O, s)
      [] O.op = "takeUntil" -> takeUntil(st, O, s)
      [] O.op = "catch"     -> catch(st, O, s)
      [] O.op = "fromIterable" ->
            LET st1 == invoke("RunIterable", <<[st EXCEPT !.depth = @ + 1], s, O.values, 1>>)
            IN  [st1 EXCEPT !.depth = st.depth]
      [] O.op = "fromAsyncIterable" -> StartForAwait(st, O, s)

\* Observable.prototype.subscribe(fnOrObserver, options); signal = 0 stands
\* for no options.signal.
subscribe(st, O, observer, signal) ==
    LET st1 == NewSubscriber(st, signal, observer)
    IN  invoke("start", <<st1, O, Len(st1.subs)>>)

----------------------------------------------------------------------------
\* A call of one part of the program by another: Observable, Subscriber,
\* observer, AbortController and user code call one another through
\* invoke, which dispatches on the name of the operator called.
invoke(m, x) ==
    CASE m = "abort"              -> abort(x[1], x[2])
      [] m = "dispatch"           -> dispatch(x[1], x[2], x[3], x[4])
      [] m = "Call"               -> Call(x[1], x[2], x[3], x[4])
      [] m = "RunScript"          -> RunScript(x[1], x[2], x[3], x[4])
      [] m = "RunIterable"        -> RunIterable(x[1], x[2], x[3], x[4])
      [] m = "SubscriberNext"     -> SubscriberNext(x[1], x[2], x[3])
      [] m = "SubscriberError"    -> SubscriberError(x[1], x[2], x[3])
      [] m = "SubscriberComplete" -> SubscriberComplete(x[1], x[2])
      [] m = "addTeardown"        -> addTeardown(x[1], x[2], x[3])
      [] m = "ObserverNext"       -> ObserverNext(x[1], x[2], x[3])
      [] m = "ObserverError"      -> ObserverError(x[1], x[2], x[3])
      [] m = "ObserverComplete"   -> ObserverComplete(x[1], x[2])
      [] m = "subscribe"          -> subscribe(x[1], x[2], x[3], x[4])
      [] m = "start"              -> start(x[1], x[2], x[3])

----------------------------------------------------------------------------
\* The entries into the program.

NextScripts ==
    { <<>>, <<I("complete", 0)>>, <<I("error", -1)>>, <<I("throw", 0)>> }

TermScripts ==
    { <<>>, <<I("throw", 0)>>, <<I("addTeardown", 1)>>,
      <<I("next", 0), I("complete", 0), I("error", -1)>> }

\* What the user's project / predicate function does when called.
Projects == {"ok", "reject", "throw"}

Oracles == [next : NextScripts, term : TermScripts, project : {"ok"}]

\* For the entries that run no handler of an observer (addTeardown and
\* abort() run teardowns and the listeners of useSignalAll only).
NoHandlers == [next |-> <<>>, term |-> <<>>, project |-> "ok"]

StartScripts ==
    { <<>>,
      [t \in Teardowns |-> I("addTeardown", t)],
      <<I("next", 0), I("complete", 0)>>,
      <<I("throw", 0)>>,
      <<I("addTeardown", 1), I("next", 0), I("throw", 0)>>,
      <<I("complete", 0), I("throw", 0)>> }

Begin(h, r) ==
    [sigs |-> sigs, subs |-> subs, cells |-> cells, log |-> log, exc |-> FALSE,
     err |-> 0, depth |-> 0, h |-> h, root |-> r]

\* The entry returns to its caller: an exception still propagating reaches
\* the caller of entry `in` ("subscribe", "call" or "abort").
Commit(st, in) ==
    /\ sigs' = st.sigs
    /\ subs' = st.subs
    /\ cells' = st.cells
    /\ log' = IF st.exc
              THEN Append(st.log, [e |-> "uncaught", in |-> in, a |-> st.err])
              ELSE st.log
    /\ UNCHANGED <<obs, cfg>>

NumRoots == Cardinality({i \in 1..Len(log) : log[i].e = "subscribe"})

\* The calls the producers have made.
TopCalls == Cardinality({i \in 1..Len(log) : log[i].e = "call" /\ log[i].d = 0})

Held == {s \in 1..Len(subs) : subs[s].held}

\* options of subscribe(): no signal, the signal of a controller not yet
\* aborted, the signal of a controller already aborted.
Options == {"none", "live", "aborted"}

\* observable.subscribe(observer, {signal}) by the user: opt says whether a
\* signal is passed and whether its controller was aborted before.
Subscribe ==
    /\ NumRoots < cfg.maxSubs
    /\ \E opt \in cfg.opts, h \in cfg.oracles :
         LET r   == NumRoots + 1
             st0 == Begin(h, r)
             st1 == IF opt = "none" THEN st0 ELSE NewSignal(st0, opt = "aborted", TRUE)
             x   == IF opt = "none" THEN 0 ELSE Len(st1.sigs)
             st2 == Log(st1, [e |-> "subscribe", r |-> r, x |-> x, pre |-> (opt = "aborted")])
         IN  Commit(subscribe(st2, obs, [kind |-> "user", id |-> r], x), "subscribe")

ProducerCall(s, op, a, H) ==
    /\ TopCalls < cfg.maxCalls
    /\ \E h \in H : Commit(Call(Begin(h, subs[s].root), op, s, a), "call")

ProducerNext == \E s \in Held : ProducerCall(s, "next", 0, cfg.oracles)

ProducerError == \E s \in Held : ProducerCall(s, "error", -1, cfg.oracles)

ProducerComplete == \E s \in Held : ProducerCall(s, "complete", 0, cfg.oracles)

ProducerAddTeardown ==
    \E s \in Held, t \in cfg.teardowns : ProducerCall(s, "addTeardown", t, {NoHandlers})

\* controller.abort() on the controller whose signal was passed to subscribe.
ExternalAbort ==
    \E x \in 1..Len(sigs) :
        /\ sigs[x].ext
        /\ ~sigs[x].aborted
        /\ Commit(abort(Log(Begin(NoHandlers, sigs[x].root), [e |-> "abort", x |-> x]), x),
                  "abort")

Next ==
    \/ Subscribe
    \/ ProducerNext
    \/ ProducerError
    \/ ProducerComplete
    \/ ProducerAddTeardown
    \/ ExternalAbort

InitHeap ==
    /\ sigs = <<>>
    /\ subs = <<>>
    /\ cells = <<>>
    /\ log = <<>>

\* One subscription to an Observable made with new Observable(start).
Init ==
    /\ InitHeap
    /\ obs \in {[op |-> "new", start |-> sc] : sc \in StartScripts}
    /\ cfg = [maxSubs |-> 1, maxCalls |-> MaxCalls, oracles |-> Oracles,
              opts |-> Options, teardowns |-> Teardowns]

Spec == Init /\ [][Next]_vars

\* One subscription to source.take(count), the source made with
\* new Observable(start).
TakeStartScripts ==
    { <<>>,
      <<I("next", 0), I("next", 0), I("complete", 0)>>,
      <<I("next", 0), I("error", -1)>>,
      <<I("addTeardown", 1), I("next", 0), I("next", 0), I("next", 0)>> }

TakeOracles ==
    [next : NextScripts \cup {<<I("next", 0)>>}, term : {<<>>, <<I("next", 0)>>},
     project : {"ok"}]

InitTake ==
    /\ InitHeap
    /\ obs \in {[op |-> "take", count |-> n, source |-> [op |-> "new", start |-> sc]] :
                    n \in 0..MaxCount, sc \in TakeStartScripts}
    /\ cfg = [maxSubs |-> 1, maxCalls |-> MaxCalls, oracles |-> TakeOracles,
              opts |-> Options, teardowns |-> {1}]

SpecTake == InitTake /\ [][Next]_vars

\* One subscription to source.map(project).
MapStartScripts ==
    { <<>>,
      <<I("next", 0), I("next", 0), I("complete", 0)>>,
      <<I("next", 0), I("error", -1)>> }

MapOracles ==
    [next : {<<>>, <<I("throw", 0)>>}, term : {<<>>, <<I("next", 0)>>, <<I("throw", 0)>>},
     project : {"ok", "throw"}]

InitMap ==
    /\ InitHeap
    /\ obs \in {[op |-> "map", source |-> [op |-> "new", start |-> sc]] :
                    sc \in MapStartScripts}
    /\ cfg = [maxSubs |-> 1, maxCalls |-> MaxCalls, oracles |-> MapOracles,
              opts |-> Options, teardowns |-> {1}]

SpecMap == InitMap /\ [][Next]_vars

\* One subscription to source.takeUntil(notifier), both made with
\* new Observable.
UntilSourceScripts ==
    { <<>>, <<I("next", 0), I("complete", 0)>>, <<I("next", 0), I("error", -1)>> }

UntilNotifierScripts == { <<>>, <<I("next", 0)>>, <<I("error", -1)>> }

UntilOracles ==
    [next : {<<>>, <<I("throw", 0)>>}, term : {<<>>, <<I("next", 0)>>, <<I("throw", 0)>>},
     project : {"ok"}]

InitUntil ==
    /\ InitHeap
    /\ obs \in {[op |-> "takeUntil", source |-> [op |-> "new", start |-> sc],
                   notifier |-> [op |-> "new", start |-> nc]] :
                    sc \in UntilSourceScripts, nc \in UntilNotifierScripts}
    /\ cfg = [maxSubs |-> 1, maxCalls |-> MaxCalls, oracles |-> UntilOracles,
              opts |-> Options, teardowns |-> {1}]

SpecUntil == InitUntil /\ [][Next]_vars

\* One subscription to source.catch(handleError); handleError returns the
\* replacement: an Observable made with new Observable, or an iterable.
CatchSourceScripts ==
    { <<>>, <<I("next", 0), I("error", -1)>>, <<I("next", 0), I("complete", 0)>> }

CatchReplacements ==
    { [op |-> "new", start |-> <<>>],
      [op |-> "new", start |-> <<I("next", 0), I("complete", 0)>>],
      [op |-> "iterable", values |-> <<7, 8>>] }

CatchOracles ==
    [next : {<<>>, <<I("throw", 0)>>}, term : {<<>>, <<I("throw", 0)>>},
     project : {"ok", "throw"}]

InitCatch ==
    /\ InitHeap
    /\ obs \in {[op |-> "catch", source |-> [op |-> "new", start |-> sc], inner |-> rep] :
                    sc \in CatchSourceScripts, rep \in CatchReplacements}
    /\ cfg = [maxSubs |-> 1, maxCalls |-> MaxCalls, oracles |-> CatchOracles,
              opts |-> Options, teardowns |-> {1}]

SpecCatch == InitCatch /\ [][Next]_vars

\* One call of a terminal reducer of an Observable made with
\* new Observable or with from(array).
ReduceSources ==
    {[op |-> "new", start |-> sc] :
        sc \in { <<>>, <<I("next", 0), I("next", 0), I("complete", 0)>>,
                 <<I("next", 0), I("error", -1)>>, <<I("complete", 0)>> }}
    \cup {[op |-> "fromIterable", values |-> <<5, 7, 9>>]}

ReduceObservables ==
    UNION { {[op |-> k, source |-> src] : k \in Reducers \ {"reduce"}}
            \cup {[op |-> "reduce", reducer |-> f, seeded |-> FALSE, seed |-> undefined,
                     source |-> src] : f \in {"sum", "digits"}}
            \cup {toArray(src)}
            : src \in ReduceSources }

\* The body of the user's function calls nothing, or has the producer
\* complete.
ReduceOracles ==
    [next : {<<>>, <<I("complete", 0)>>}, term : {<<>>}, project : Projects]

\* observable.forEach / every / some / find / reduce / toArray called by
\* the user, with or without options.signal.
Reduce ==
    /\ NumRoots < cfg.maxSubs
    /\ \E opt \in cfg.opts, h \in cfg.oracles :
         LET r   == NumRoots + 1
             st0 == Begin(h, r)
             st1 == IF opt = "none" THEN st0 ELSE NewSignal(st0, opt = "aborted", TRUE)
             x   == IF opt = "none" THEN 0 ELSE Len(st1.sigs)
             st2 == Log(st1, [e |-> "subscribe", r |-> r, x |-> x, pre |-> (opt = "aborted")])
         IN  Commit(reducer(st2, obs, x), "subscribe")

NextReduce ==
    \/ Reduce
    \/ ProducerNext
    \/ ProducerError
    \/ ProducerComplete
    \/ ExternalAbort

InitReduce ==
    /\ InitHeap
    /\ obs \in ReduceObservables
    /\ cfg = [maxSubs |-> 1, maxCalls |-> MaxCalls, oracles |-> ReduceOracles,
              opts |-> Options, teardowns |-> {1}]

SpecReduce == InitReduce /\ [][NextReduce]_vars

\* reduce of observable.js (subscription 1) and reduce of observable.ts
\* (subscription 2) called with the same source, reducer, initial value
\* and options.  A call can pass options only when it passes an initial
\* value.
DraftSources ==
    {[op |-> "new", start |-> sc] :
        sc \in { <<>>, <<I("next", 0), I("next", 0), I("complete", 0)>>,
                 <<I("complete", 0)>> }}

DraftCalls ==
    {[seeded |-> FALSE, options |-> "undefined"], [seeded |-> TRUE, options |-> "undefined"],
     [seeded |-> TRUE, options |-> "none"], [seeded |-> TRUE, options |-> "live"]}

DraftObservables ==
    {[op |-> "reduce", reducer |-> f, seeded |-> c.seeded,
      seed |-> IF c.seeded THEN 0 ELSE undefined, options |-> c.options, source |-> src] :
        f \in {"sum", "digits"}, c \in DraftCalls, src \in DraftSources}

DraftOracles == [next : {<<>>}, term : {<<>>}, project : {"ok", "throw"}]

\* observable.reduce(reducer, initialValue, options) of observable.js.
ReduceJs ==
    /\ NumRoots = 0
    /\ \E h \in cfg.oracles :
         LET st0 == Begin(h, 1)
             st1 == IF obs.options = "live" THEN NewSignal(st0, FALSE, TRUE) ELSE st0
             x   == IF obs.options = "live" THEN Len(st1.sigs) ELSE 0
             st2 == Log(st1, [e |-> "subscribe", r |-> 1, x |-> x, pre |-> FALSE])
         IN  Commit(reducer(st2, obs, x), "subscribe")

\* The same call of observable.ts.
ReduceTs ==
    /\ NumRoots = 1
    /\ \E h \in cfg.oracles :
         LET st0 == Begin(h, 2)
             st1 == IF obs.options = "live" THEN NewSignal(st0, FALSE, TRUE) ELSE st0
             x   == IF obs.options = "live" THEN Len(st1.sigs) ELSE 0
             st2 == Log(st1, [e |-> "subscribe", r |-> 2, x |-> x, pre |-> FALSE])
         IN  Commit(reduce_ts(st2, obs, x), "subscribe")

NextDraft ==
    \/ ReduceJs
    \/ ReduceTs
    \/ ProducerNext
    \/ ProducerComplete
    \/ ExternalAbort

InitDraft ==
    /\ InitHeap
    /\ obs \in DraftObservables
    /\ cfg = [maxSubs |-> 2, maxCalls |-> MaxCalls, oracles |-> DraftOracles,
              opts |-> {obs.options}, teardowns |-> {1}]

SpecDraft == InitDraft /\ [][NextDraft]_vars

\* One subscription to Observable.from(x) or to Observable.from(x).take(n),
\* x an iterable or an async iterable of three values.  The loop of the
\* async iterable goes on in a job of its own after each await.
FromValues ==
    {[op |-> k, values |-> <<5, 7, 9>>] : k \in {"iterable", "asyncIterable"}}

FromObservables ==
    {from(x) : x \in FromValues}
      \cup {[op |-> "take", count |-> n, source |-> from(x)] : n \in 1..MaxCount, x \in FromValues}

FromOracles == [next : {<<>>, <<I("throw", 0)>>}, term : {<<>>}, project : {"ok"}]

ForAwait ==
    \E c \in 1..Len(cells), h \in cfg.oracles :
        /\ "forAwait" \in DOMAIN cells[c]
        /\ cells[c].running
        /\ Commit(ResumeForAwait([Begin(h, cells[c].root) EXCEPT !.depth = 1], c), "job")

NextFrom ==
    \/ Subscribe
    \/ ExternalAbort
    \/ ForAwait

InitFrom ==
    /\ InitHeap
    /\ obs \in FromObservables
    /\ cfg = [maxSubs |-> 1, maxCalls |-> MaxCalls, oracles |-> FromOracles,
              opts |-> Options, teardowns |-> {1}]

SpecFrom == InitFrom /\ [][NextFrom]_vars

\* One iterator of an Observable, made with source[Symbol.asyncIterator]():
\* the consumer calls its next(), throw() and return() while the producer
\* of the source emits.
MaxPulls == 3

MaxForces == 1

PullSources ==
    {[op |-> "new", start |-> sc] :
        sc \in { <<>>,
                 <<I("next", 0), I("next", 0), I("complete", 0)>>,
                 <<I("next", 0), I("error", -1)>>,
                 <<I("complete", 0)>> }}
      \cup {[op |-> "fromIterable", values |-> <<5, 7, 9>>]}

\* The calls of throw() and return() made.
Forces == Cardinality({i \in 1..Len(log) : log[i].e = "iterator" /\ log[i].m # "next"})

IteratorNext ==
    /\ cells[1].pulls < MaxPulls
    /\ Commit(iteratorNext(Begin(NoHandlers, 1), obs, 1), "iterator")

IteratorThrow ==
    /\ Forces < MaxForces
    /\ Commit(iteratorThrow(Begin(NoHandlers, 1), 1, Forced), "iterator")

IteratorReturn ==
    /\ Forces < MaxForces
    /\ Commit(iteratorReturn(Begin(NoHandlers, 1), 1), "iterator")

NextPull ==
    \/ IteratorNext
    \/ IteratorThrow
    \/ IteratorReturn
    \/ ProducerNext
    \/ ProducerError
    \/ ProducerComplete

InitPull ==
    /\ sigs = <<>>
    /\ subs = <<>>
    /\ cells = <<asyncIterator>>
    /\ log = <<>>
    /\ obs \in {[op |-> "asyncIterator", source |-> src] : src \in PullSources}
    /\ cfg = [maxSubs |-> 1, maxCalls |-> MaxCalls, oracles |-> {NoHandlers},
              opts |-> {"none"}, teardowns |-> {1}]

SpecPull == InitPull /\ [][NextPull]_vars

\* One subscription to source.flatMap(project).  The inner Observables
\* emit later (new Observable with an empty subscribe procedure) or at
\* once (from of an array).
FlatSourceScripts ==
    { <<>>, <<I("next", 0), I("next", 0)>>,
      <<I("next", 0), I("next", 0), I("complete", 0)>> }

FlatInners == { [op |-> "new", start |-> <<>>], [op |-> "iterableOf"] }

FlatOracles ==
    [next : {<<>>, <<I("throw", 0)>>}, term : {<<>>, <<I("throw", 0)>>},
     project : {"ok", "throw"}]

InitFlat ==
    /\ InitHeap
    /\ obs \in {[op |-> "flatMap", source |-> [op |-> "new", start |-> sc], inner |-> pj] :
                    sc \in FlatSourceScripts, pj \in FlatInners}
    /\ cfg = [maxSubs |-> 1, maxCalls |-> MaxCalls, oracles |-> FlatOracles,
              opts |-> Options, teardowns |-> {1}]

SpecFlat == InitFlat /\ [][Next]_vars

\* source.switchMap(project), with the inner Observables and the
\* behaviours of flatMap above.
SwitchSourceScripts ==
    { <<>>, <<I("next", 0), I("next", 0)>>, <<I("next", 0), I("complete", 0)>> }

SwitchOracles ==
    [next : {<<>>, <<I("throw", 0)>>}, term : {<<>>}, project : {"ok", "throw"}]

InitSwitch ==
    /\ InitHeap
    /\ obs \in {[op |-> "switchMap", source |-> [op |-> "new", start |-> sc], inner |-> pj] :
                    sc \in SwitchSourceScripts, pj \in FlatInners}
    /\ cfg = [maxSubs |-> 1, maxCalls |-> MaxCalls, oracles |-> SwitchOracles,
              opts |-> Options, teardowns |-> {1}]

SpecSwitch == InitSwitch /\ [][Next]_vars

\* Two subscriptions to one Observable built with an operator.  The source
\* emits from its subscribe procedure or later; the inner Observable that
\* the project function of flatMap / switchMap returns emits later.
OpSources ==
    {[op |-> "new", start |-> sc] : sc \in {<<>>, <<I("next", 0)>>}}

OpObservables ==
    UNION { { [op |-> "take", count |-> 1, source |-> src],
              [op |-> "drop", count |-> 1, source |-> src],
              [op |-> "map", source |-> src],
              [op |-> "filter", source |-> src],
              [op |-> "flatMap", source |-> src, inner |-> [op |-> "new", start |-> <<>>]],
              [op |-> "switchMap", source |-> src, inner |-> [op |-> "new", start |-> <<>>]] }
            : src \in OpSources }

\* The predicate of filter accepts or rejects; the other functions return.
OpOracles(O) ==
    [next : {<<>>}, term : {<<>>},
     project : IF O.op = "filter" THEN Projects \ {"throw"} ELSE {"ok"}]

InitOps ==
    /\ InitHeap
    /\ obs \in OpObservables
    /\ cfg = [maxSubs |-> 2, maxCalls |-> MaxCalls - 1, oracles |-> OpOracles(obs),
              opts |-> {"live"}, teardowns |-> {1}]

SpecOps == InitOps /\ [][Next]_vars

----------------------------------------------------------------------------
\* Reading the history.

Roots == 1..NumRoots

IsHandler(ev, r) == ev.e = "handler" /\ ev.o = r

IsTerminal(ev, r) == ev.e = "handler" /\ ev.o = r /\ ev.h \in {"error", "complete"}

IsCall(ev, ops) == ev.e = "call" /\ ev.op \in ops

IsRun(ev, t, s) == ev.e = "teardown" /\ ev.t = t /\ ev.s = s

Idx == 1..Len(log)

\* The model never cuts a handler short.
NoTruncation == \A i \in Idx : log[i].e # "truncated"

----------------------------------------------------------------------------
\* Subscriber, subscribe(), teardowns: one subscription to a new Observable.

\* The Subscriber of subscription r that holds the user's observer.
UserSub(r) == CHOOSE s \in 1..Len(subs) :
                  subs[s].observer.kind = "user" /\ subs[s].observer.id = r

\* The controller whose signal subscription r passed was aborted after the
\* subscription was made.
TokenFired(i, r) == log[i].e = "abort" /\ sigs[log[i].x].root = r

\* C1: the observer's error and complete handlers are invoked at most once
\* in total, whatever the producer, the handlers and the token do.
C1_AtMostOneTerminal ==
    \A r \in Roots : Cardinality({i \in Idx : IsTerminal(log[i], r)}) <= 1

\* A terminal handler ran, called error/complete again from inside, and
\* the producer called error/complete once more afterwards.
C1_Witness ==
    \E i, j, k \in Idx :
        /\ i < j /\ j < k
        /\ IsTerminal(log[i], 1)
        /\ IsCall(log[j], {"error", "complete"}) /\ log[j].d >= 1
        /\ IsCall(log[k], {"error", "complete"}) /\ log[k].d = 0

\* C2: once a Subscriber is closed, by its own error/complete or by the
\* token firing after the subscription was made, no handler of the observer
\* is invoked again.
C2_ClosedStaysSilent ==
    \A r \in Roots : \A i \in Idx :
        (IsTerminal(log[i], r) \/ TokenFired(i, r))
            => \A j \in (i + 1)..Len(log) : ~IsHandler(log[j], r)

\* The token fired after a value had been delivered, and the producer went
\* on calling next and complete.
C2_Witness ==
    \E g, i, j, k \in Idx :
        /\ g < i /\ i < j /\ j < k
        /\ IsHandler(log[g], 1) /\ log[g].h = "next"
        /\ TokenFired(i, 1)
        /\ IsCall(log[j], {"next"}) /\ log[j].d = 0
        /\ IsCall(log[k], {"error", "complete"}) /\ log[k].d = 0

\* C3: a call of next, error or complete made by user code that is running
\* inside (or after) the observer's terminal handler delivers nothing: the
\* call is not followed by a handler of that observer.
C3_ReentrantNoOp ==
    \A r \in Roots : \A k \in Idx :
        IsTerminal(log[k], r) =>
            \A i \in (k + 1)..Len(log) :
                (/\ IsCall(log[i], {"next", "error", "complete"})
                 /\ log[i].d >= 1
                 /\ subs[log[i].s].root = r)
                    => (i = Len(log) \/ ~IsHandler(log[i + 1], r))

\* The complete handler called next, complete and error on its Subscriber.
C3_Witness ==
    \E k \in Idx :
        /\ k + 3 <= Len(log)
        /\ IsTerminal(log[k], 1) /\ log[k].h = "complete"
        /\ IsCall(log[k + 1], {"next"}) /\ log[k + 1].d = log[k].d + 1
        /\ IsCall(log[k + 2], {"complete"})
        /\ IsCall(log[k + 3], {"error"})

\* C4: an exception the subscribe procedure throws does not reach the
\* caller of subscribe(); it is delivered to the observer's error handler
\* if the Subscriber is still active.
C4_StartThrowRouted ==
    \A i \in Idx :
        (log[i].e = "throw" /\ log[i].d = 1)
            => /\ \A j \in Idx : ~(log[j].e = "uncaught" /\ log[j].in = "subscribe")
               /\ i < Len(log)
               /\ IsCall(log[i + 1], {"error"})

\* C5: a subscription made with a token that had already fired delivers
\* nothing to the observer.
C5_PreAbortedSilent ==
    \A r \in Roots : \A i, j \in Idx :
        (log[i].e = "subscribe" /\ log[i].r = r /\ log[i].pre) => ~IsHandler(log[j], r)

\* No user code threw, and no token had fired before it was passed.
NoThrow == \A i \in Idx : log[i].e # "throw" /\ (log[i].e = "subscribe" => ~log[i].pre)

\* Teardown t was registered on Subscriber s while s was active.
Registered(i, t, s) ==
    IsCall(log[i], {"addTeardown"}) /\ log[i].a = t /\ log[i].s = s /\ log[i].act

\* Teardown t of Subscriber s ran at p, and not as the immediate run of an
\* addTeardown on the inactive Subscriber.
DeferredRun(p, t, s) ==
    /\ IsRun(log[p], t, s)
    /\ ~(p > 1 /\ IsCall(log[p - 1], {"addTeardown"}) /\ ~log[p - 1].act)

Runs(t, s) == {p \in Idx : DeferredRun(p, t, s)}

\* C6: when the subscription has ended (terminal handler run, or token
\* fired), every teardown registered while active has run exactly once.
C6_TeardownExactlyOnce ==
    NoThrow =>
        \A r \in Roots : \A i, c \in Idx : \A t \in Teardowns :
            (/\ Registered(i, t, UserSub(r))
             /\ IsTerminal(log[c], r) \/ TokenFired(c, r))
                => Cardinality(Runs(t, UserSub(r))) = 1

\* C7: teardowns registered in the order t1, t2 run in the order t2, t1
\* when the subscriber completes or errors.
C7_ReverseOrder ==
    \A s \in 1..Len(subs) : \A i, j, p, q \in Idx : \A t1, t2 \in Teardowns :
        (/\ NoThrow
         /\ i < j /\ t1 # t2
         /\ Registered(i, t1, s) /\ Registered(j, t2, s)
         /\ DeferredRun(p, t1, s) /\ DeferredRun(q, t2, s))
            => q < p

\* C8: addTeardown(t) on an active Subscriber does not run t at that
\* moment; on a Subscriber that is not active it runs t at once, one time.
C8_AddTeardown ==
    \A i \in Idx :
        IsCall(log[i], {"addTeardown"}) =>
            IF log[i].act
            THEN i < Len(log) /\ log[i + 1].e = "ret"
            ELSE /\ i + 1 < Len(log)
                 /\ IsRun(log[i + 1], log[i].a, log[i].s)
                 /\ log[i + 2].e = "ret"

\* A teardown was registered on the active Subscriber and ran when it
\* closed; another was then added to the closed Subscriber and ran at once.
C8_Witness ==
    \E i, j \in Idx :
        /\ i < j /\ j + 1 < Len(log)
        /\ IsCall(log[i], {"addTeardown"}) /\ log[i].act
        /\ \E p \in Idx : i + 1 < p /\ p < j /\ IsRun(log[p], log[i].a, log[i].s)
        /\ IsCall(log[j], {"addTeardown"}) /\ ~log[j].act
        /\ IsRun(log[j + 1], log[j].a, log[j].s)
        /\ log[j + 2].e = "ret"

----------------------------------------------------------------------------
\* take

\* The values the source of subscription r emitted: the next() calls made
\* on its Subscriber while that Subscriber was active.
Emitted(r) ==
    {i \in Idx : /\ IsCall(log[i], {"next"})
                 /\ subs[log[i].s].root = r
                 /\ log[i].act}

\* log[i] is the Rank(i, r)-th value the source emitted.
Rank(i, r) == Cardinality({j \in Emitted(r) : j <= i})

\* log[k] happened before the call log[i] returned.
During(i, k) ==
    /\ k > i
    /\ k <= Len(log)
    /\ \A m \in (i + 1)..k :
          /\ log[m].e \notin {"subscribe", "abort", "uncaught"}
          /\ log[m].e = "call" => log[m].d > log[i].d

IsNextOf(ev, r) == IsHandler(ev, r) /\ ev.h = "next"

\* The first n values are forwarded in order, each as it is emitted, and
\* no other value is.
TakeForwardsFirstN(r, n) ==
    /\ \A i \in Emitted(r) :
          IF Rank(i, r) <= n
          THEN i < Len(log) /\ IsNextOf(log[i + 1], r) /\ log[i + 1].a = log[i].a
          ELSE i < Len(log) => ~IsNextOf(log[i + 1], r)
    /\ \A p \in Idx : IsNextOf(log[p], r) => (p - 1) \in Emitted(r)

\* The destination is closed before the next() that emitted the n-th
\* value returns.
TakeCompletesAtN(r, n) ==
    \A i \in Emitted(r) :
        Rank(i, r) = n => \E j \in Idx : During(i, j) /\ IsTerminal(log[j], r)

\* A complete() or error() of the source before n values is forwarded.
TakeForwardsTerminal(r, n) ==
    \A i \in Idx :
        ( /\ IsCall(log[i], {"error", "complete"})
          /\ subs[log[i].s].root = r
          /\ log[i].act
          /\ Rank(i, r) < n )
        => /\ i < Len(log)
           /\ IsHandler(log[i + 1], r)
           /\ log[i + 1].h = log[i].op
           /\ log[i + 1].a = log[i].a

\* C10: for n >= 1, source.take(n) forwards exactly the first n source
\* values in order, completes the destination immediately after
\* forwarding the n-th value, forwards no value the source emits
\* afterwards, and forwards the terminal event of a source that completes
\* or errors before n values.  (Stated for subscriptions whose token, if
\* any, had not fired when subscribe() was called.)
C10_TakeBoundary ==
    (/\ obs.op = "take"
     /\ obs.count >= 1
     /\ \A i \in Idx : log[i].e = "subscribe" => ~log[i].pre) =>
        \A r \in Roots : /\ TakeForwardsFirstN(r, obs.count)
                          /\ TakeCompletesAtN(r, obs.count)
                          /\ TakeForwardsTerminal(r, obs.count)

\* The same, the closing after the n-th value required only when the
\* user's next handler, given the n-th value, neither threw nor had the
\* source emit again before it returned.
TakeBoundaryPlain ==
    (obs.op = "take" /\ obs.count >= 1) =>
        \A r \in Roots :
            /\ TakeForwardsFirstN(r, obs.count)
            /\ TakeForwardsTerminal(r, obs.count)
            /\ \A i \in Emitted(r) :
                  Rank(i, r) = obs.count =>
                      \/ \E j \in Idx : During(i, j) /\ IsTerminal(log[j], r)
                      \/ \E j \in Idx : During(i, j) /\ log[j].e = "throw"
                      \/ \E j \in Idx : During(i, j) /\ IsCall(log[j], {"next"})

\* No subscription was made with a token that had already fired.
NoPreFired == \A i \in Idx : log[i].e = "subscribe" => ~log[i].pre

\* C11: source.take(0) completes the destination immediately: the
\* observer's complete handler has run when subscribe() returns, before the
\* source emitted or completed, and no value is forwarded.
C11_TakeZero ==
    (obs.op = "take" /\ obs.count = 0 /\ NoPreFired) =>
        \A r \in Roots :
            /\ \E j \in Idx :
                  /\ IsHandler(log[j], r)
                  /\ log[j].h = "complete"
                  /\ \A m \in 1..(j - 1) : log[m].e # "call"
            /\ \A p \in Idx : ~IsNextOf(log[p], r)

\* What take(0) does: it forwards no value, and the destination is
\* completed when, and only when, the source completes.
TakeZeroWaits ==
    (obs.op = "take" /\ obs.count = 0) =>
        \A r \in Roots :
            /\ \A p \in Idx : ~IsNextOf(log[p], r)
            /\ \A j \in Idx :
                  (IsHandler(log[j], r) /\ log[j].h = "complete")
                      => (j > 1 /\ IsCall(log[j - 1], {"complete"}))

----------------------------------------------------------------------------
\* map

\* The calls of the project / predicate function of subscription r.
Projected(r) == {i \in Idx : log[i].e = "project" /\ log[i].r = r}

\* The index passed to the project function counts the calls of this
\* subscription from 0.
IndexFromZero(r) ==
    \A i \in Projected(r) : log[i].i = Cardinality({j \in Projected(r) : j < i})

\* project is called with each value the source emits and with the index
\* counting from 0.
MapProjectsEach(r) ==
    /\ IndexFromZero(r)
    /\ \A i \in Emitted(r) :
          /\ i < Len(log)
          /\ log[i + 1].e = "project"
          /\ log[i + 1].a = log[i].a

\* What project returns is forwarded at once.
MapForwards(r) ==
    \A p \in Projected(r) :
        log[p].res = "ok" =>
            /\ p < Len(log)
            /\ IsNextOf(log[p + 1], r)
            /\ log[p + 1].a = Project(log[p].a, log[p].i)

\* An exception of project (-2) closes the destination with it; project is
\* not called and nothing is forwarded after that.
MapThrowCloses(r) ==
    \A p \in Projected(r) :
        log[p].res = "throw" =>
            /\ p < Len(log)
            /\ IsHandler(log[p + 1], r)
            /\ log[p + 1].h = "error"
            /\ log[p + 1].a = -2
            /\ \A q \in (p + 1)..Len(log) :
                  log[q].e # "project" /\ ~IsNextOf(log[q], r)

\* C12: source.map(project) calls project(value, i) with i = 0, 1, 2, ...
\* for the source's values and forwards the results in source order; if
\* project throws, the destination is closed with error carrying that
\* exception, project is never called again and nothing further is
\* forwarded.
C12_Map ==
    (obs.op = "map" /\ NoPreFired) =>
        \A r \in Roots : MapProjectsEach(r) /\ MapForwards(r) /\ MapThrowCloses(r)

\* The observer's error handler of subscription r returned without
\* throwing and without calling the Subscriber its producer holds.
ErrorHandlerPlain(r) ==
    \A k \in Idx :
        (IsHandler(log[k], r) /\ log[k].h = "error") =>
            \A j \in Idx : During(k, j) => log[j].e \notin {"call", "throw"}

\* C12's statement for observers whose error handler is plain.
MapPlain ==
    obs.op = "map" =>
        \A r \in Roots :
            ErrorHandlerPlain(r)
                => MapProjectsEach(r) /\ MapForwards(r) /\ MapThrowCloses(r)

----------------------------------------------------------------------------
\* takeUntil

\* Subscriber s of subscription r was given to the notifier / to the source.
IsNotifierSub(s, r) == subs[s].root = r /\ subs[s].observer.kind = "takeUntilNotifier"

IsSourceSub(s, r) == subs[s].root = r /\ subs[s].observer.kind = "default"

\* The values and errors the notifier of subscription r emitted.
NotifierEmitted(r) ==
    {i \in Idx : /\ IsCall(log[i], {"next", "error"})
                 /\ IsNotifierSub(log[i].s, r)
                 /\ log[i].act}

\* The first of them (0: none yet).
NotifierFirst(r) ==
    IF NotifierEmitted(r) = {} THEN 0
    ELSE CHOOSE i \in NotifierEmitted(r) : \A j \in NotifierEmitted(r) : i <= j

\* C13: in source.takeUntil(notifier) the notifier's first value completes
\* the destination, or its error closes the destination with that error,
\* at once; no value of the source is delivered after that.
C13_NotifierCloses ==
    obs.op = "takeUntil" =>
        \A r \in Roots :
            LET f == NotifierFirst(r)
            IN  f # 0 =>
                  /\ f < Len(log)
                  /\ IsTerminal(log[f + 1], r)
                  /\ log[f + 1].h = (IF log[f].op = "next" THEN "complete" ELSE "error")
                  /\ log[f].op = "error" => log[f + 1].a = log[f].a
                  /\ \A q \in (f + 2)..Len(log) : ~IsNextOf(log[q], r)

\* The notifier emitted a value, the destination was completed, and the
\* source emitted a value afterwards.
C13_Witness ==
    \E i, j \in Idx :
        /\ i + 1 < j
        /\ IsCall(log[i], {"next"}) /\ IsNotifierSub(log[i].s, 1) /\ log[i].act
        /\ IsTerminal(log[i + 1], 1) /\ log[i + 1].h = "complete"
        /\ IsCall(log[j], {"next"}) /\ IsSourceSub(log[j].s, 1) /\ log[j].d = 0

\* C14: while the notifier has emitted nothing, every value the source
\* emits is delivered to the observer's next handler, and the source's
\* completion or error to its complete or error handler.
C14_SourcePassesThrough ==
    (obs.op = "takeUntil" /\ NoPreFired) =>
        \A r \in Roots : \A i \in Idx :
            ( /\ IsCall(log[i], {"next", "error", "complete"})
              /\ IsSourceSub(log[i].s, r)
              /\ log[i].act
              /\ (NotifierFirst(r) = 0 \/ i < NotifierFirst(r)) )
            => /\ i < Len(log)
               /\ IsHandler(log[i + 1], r)
               /\ log[i + 1].h = log[i].op
               /\ log[i + 1].a = log[i].a

\* What takeUntil does with the source: nothing the source emits reaches
\* the observer; its error is given to reportError.
TakeUntilSourceUnheard ==
    obs.op = "takeUntil" =>
        \A r \in Roots :
            /\ \A p \in Idx : ~IsNextOf(log[p], r)
            /\ \A i \in Idx :
                  (IsCall(log[i], {"next", "error", "complete"}) /\ IsSourceSub(log[i].s, r))
                      => /\ i < Len(log) => ~IsHandler(log[i + 1], r)
                         /\ (log[i].op = "error" /\ log[i].act)
                                => (i < Len(log) /\ log[i + 1] = [e |-> "report", a |-> log[i].a])

----------------------------------------------------------------------------
\* catch

\* Subscriber s of subscription r was given to the source / to the
\* replacement that handleError returned.
IsCaughtSub(s, r) == subs[s].root = r /\ subs[s].observer.kind = "catch"

IsReplacementSub(s, r) == subs[s].root = r /\ subs[s].observer.kind = "default"

\* The source's error is handed to handleError, not to the observer.
CatchHandlesError(r) ==
    \A i \in Idx :
        (IsCall(log[i], {"error"}) /\ IsCaughtSub(log[i].s, r) /\ log[i].act)
            => /\ i < Len(log)
               /\ log[i + 1].e = "handle"
               /\ log[i + 1].a = log[i].a
               /\ \A q \in Idx :
                     ~(IsHandler(log[q], r) /\ log[q].h = "error" /\ log[q].a = log[i].a)

\* C15: in source.catch(handler) the source's error e is not delivered to
\* the observer's error handler; from(handler(e)) is subscribed into the
\* destination: each value the replacement emits is delivered to the
\* observer's next handler, and its completion or error to the observer's
\* complete or error handler.
C15_CatchReplaces ==
    (obs.op = "catch" /\ NoPreFired) =>
        \A r \in Roots :
            /\ CatchHandlesError(r)
            /\ \A i \in Idx :
                  ( /\ IsCall(log[i], {"next", "error", "complete"})
                    /\ IsReplacementSub(log[i].s, r)
                    /\ log[i].act )
                  => /\ i < Len(log)
                     /\ IsHandler(log[i + 1], r)
                     /\ log[i + 1].h = log[i].op
                     /\ log[i + 1].a = log[i].a

\* What catch does: the source's values and completion are forwarded, its
\* error is handed to handleError, and nothing the replacement emits
\* reaches the observer; the replacement's error is given to reportError.
CatchReplacementUnheard ==
    obs.op = "catch" =>
        \A r \in Roots :
            /\ CatchHandlesError(r)
            /\ \A i \in Idx :
                  ( /\ IsCall(log[i], {"next", "complete"})
                    /\ IsCaughtSub(log[i].s, r)
                    /\ log[i].act )
                  => /\ i < Len(log)
                     /\ IsHandler(log[i + 1], r)
                     /\ log[i + 1].h = log[i].op
                     /\ log[i + 1].a = log[i].a
            /\ \A i \in Idx :
                  (IsCall(log[i], {"next", "error", "complete"}) /\ IsReplacementSub(log[i].s, r))
                      => /\ i < Len(log) => ~IsHandler(log[i + 1], r)
                         /\ (log[i].op = "error" /\ log[i].act)
                                => (i < Len(log) /\ log[i + 1].e = "report")

----------------------------------------------------------------------------
\* flatMap

\* Subscriber s of subscription r was given to the outer source / to an
\* inner Observable.
IsOuterSub(s, r) == subs[s].root = r /\ subs[s].observer.kind \in {"flatMap", "switchMap"}

IsInnerSub(s, r) ==
    subs[s].root = r /\ subs[s].observer.kind \in {"flatMapInner", "switchMapInner"}

\* The values delivered to the observer of subscription r, in order.
Delivered(r) ==
    LET D == SelectSeq(log, LAMBDA ev : IsNextOf(ev, r))
    IN  [k \in 1..Len(D) |-> D[k].a]

\* Every value delivered is the value an inner Subscriber was just given.
FromInnerOnly(r) ==
    \A p \in Idx :
        IsNextOf(log[p], r) =>
            /\ p > 1
            /\ IsCall(log[p - 1], {"next"})
            /\ IsInnerSub(log[p - 1].s, r)
            /\ log[p - 1].a = log[p].a

\* The inner Observables are started in the order of the outer values
\* (the k-th outer value is k), and once a later one has delivered a value
\* no earlier one delivers (the Subscribers are numbered as they are made).
InnersInOrder(r) ==
    /\ \A p, q \in Projected(r) : p < q => log[p].a < log[q].a
    /\ \A p, q \in Idx :
          (p < q /\ IsNextOf(log[p], r) /\ IsNextOf(log[q], r))
              => log[p - 1].s <= log[q - 1].s

\* No user code threw.
NoThrowEvents == \A i \in Idx : log[i].e # "throw"

\* C16: the output of flatMap is the ordered, non-overlapping
\* concatenation of the inner Observables: every value delivered comes
\* from an inner, the inners are started in the order of the outer values
\* and every value of an earlier inner is delivered before any value of a
\* later one, however the outer and the inner emissions interleave; a
\* source that emits 1, 2 with project(x) = from([10x, 10x + 1]) yields
\* 10, 11, 20, 21.
C16_FlatMapOrdered ==
    obs.op = "flatMap" =>
        \A r \in Roots :
            /\ FromInnerOnly(r)
            /\ InnersInOrder(r)
            /\ ( /\ obs.inner.op = "iterableOf"
                 /\ Len(obs.source.start) >= 2
                 /\ NoThrowEvents
                 /\ \A p \in Projected(r) : log[p].res = "ok" )
               => /\ Len(Delivered(r)) >= 4
                  /\ SubSeq(Delivered(r), 1, 4) = <<10, 11, 20, 21>>

\* The outer source emitted 2 while the inner for 1 was active; that inner
\* then delivered a value and completed, and the inner for 2 delivered one.
C16_Witness ==
    \E i, j, k \in Idx :
        /\ i < j /\ j < k
        /\ IsCall(log[i], {"next"}) /\ IsOuterSub(log[i].s, 1) /\ log[i].a = 2
        /\ log[i].inn = 1
        /\ IsNextOf(log[j], 1)
        /\ IsNextOf(log[k], 1)
        /\ log[j - 1].s < log[k - 1].s

\* log[i] is complete() called on the live Subscriber given to the outer
\* source / to an inner Observable of subscription r.
OuterCompleted(i, r) ==
    IsCall(log[i], {"complete"}) /\ IsOuterSub(log[i].s, r) /\ log[i].act

InnerCompleted(i, r) ==
    IsCall(log[i], {"complete"}) /\ IsInnerSub(log[i].s, r) /\ log[i].act

\* The observer of subscription r has had no error or completion before
\* log[i].
OpenAt(i, r) == \A k \in 1..(i - 1) : ~IsTerminal(log[k], r)

\* The observer of subscription r is completed as the very next step.
CompletesAt(i, r) ==
    i < Len(log) /\ IsHandler(log[i + 1], r) /\ log[i + 1].h = "complete"

\* C17: when the outer source of flatMap completes, the destination
\* completes immediately only if no inner subscription is active and the
\* queue is empty; if an inner is active the destination stays open, the
\* later values of the inners are still delivered, and the destination
\* completes only when the last inner completes.
C17_FlatMapCompletion ==
    (obs.op = "flatMap" /\ NoPreFired) =>
        \A r \in Roots : \A i \in Idx :
            (OuterCompleted(i, r) /\ OpenAt(i, r)) =>
                IF log[i].inn = 0 /\ ~log[i].q
                THEN CompletesAt(i, r)
                ELSE /\ ~CompletesAt(i, r)
                     /\ \A j \in Idx :
                           ( /\ j > i
                             /\ IsCall(log[j], {"next"})
                             /\ IsInnerSub(log[j].s, r)
                             /\ log[j].act )
                           => /\ j < Len(log)
                              /\ IsNextOf(log[j + 1], r)
                              /\ log[j + 1].a = log[j].a
                     /\ \A k \in Idx :
                           (k > i /\ IsHandler(log[k], r) /\ log[k].h = "complete")
                           => /\ InnerCompleted(k - 1, r)
                              /\ log[k - 1].inn = 1
                              /\ ~log[k - 1].q

\* What the outer relay does: it completes the destination at once
\* whenever the queue is empty, whether or not an inner is active, and
\* otherwise leaves it to the completion of the inner that empties the
\* queue.
FlatMapCompletesOnEmptyQueue ==
    (obs.op = "flatMap" /\ NoPreFired) =>
        \A r \in Roots : \A i \in Idx :
            /\ (OuterCompleted(i, r) /\ OpenAt(i, r))
                  => (CompletesAt(i, r) <=> ~log[i].q)
            /\ (InnerCompleted(i, r) /\ CompletesAt(i, r)) =>
                  \E j \in 1..(i - 1) : OuterCompleted(j, r)

\* log[i] is an error of the outer source or of an inner Observable of
\* subscription r, or a call of project that threw; Failure(i) is the
\* error.
FailsAt(i, r) ==
    \/ /\ IsCall(log[i], {"error"})
       /\ IsOuterSub(log[i].s, r) \/ IsInnerSub(log[i].s, r)
       /\ log[i].act
    \/ /\ log[i].e = "project"
       /\ log[i].r = r
       /\ log[i].res = "throw"

Failure(i) == IF log[i].e = "project" THEN -2 ELSE log[i].a

\* The heap of the current state.
Heap == [sigs |-> sigs, subs |-> subs, cells |-> cells]

\* After the failure log[i] the observer of r gets that error, no inner is
\* left active, no value is delivered and no outer value is projected.
FlatMapClosedBy(i, r) ==
    /\ i < Len(log)
    /\ IsHandler(log[i + 1], r)
    /\ log[i + 1].h = "error"
    /\ log[i + 1].a = Failure(i)
    /\ ActiveInners(Heap, r) = {}
    /\ \A j \in Idx : j > i => ~IsNextOf(log[j], r)
    /\ \A j \in Projected(r) : j < i \/ j = i

\* C18: in flatMap an outer error, an inner error or an exception thrown
\* by project closes the destination with that error and cancels the
\* active inner; afterwards no inner value is delivered and no queued
\* outer value is projected.
C18_FlatMapError ==
    (obs.op = "flatMap" /\ NoPreFired) =>
        \A r \in Roots : \A i \in Idx :
            (FailsAt(i, r) /\ OpenAt(i, r)) => FlatMapClosedBy(i, r)

\* The same, for an observer whose handlers do not throw.
FlatMapErrorPlain == NoThrowEvents => C18_FlatMapError

----------------------------------------------------------------------------
\* The inner subscriptions and the queue of flatMap

\* log[i] is a value the outer source emitted.
OuterEmitted(i, r) ==
    IsCall(log[i], {"next"}) /\ IsOuterSub(log[i].s, r) /\ log[i].act

\* The values of a set of numbers in ascending order.
RECURSIVE Ascending(_)
Ascending(S) ==
    IF S = {}
    THEN <<>>
    ELSE LET m == CHOOSE x \in S : \A y \in S : x <= y
         IN  <<m>> \o Ascending(S \ {m})

\* The outer values of subscription r that no call of project was given.
Unprojected(r) ==
    {log[i].a : i \in {j \in Idx : OuterEmitted(j, r)}}
        \ {log[p].a : p \in Projected(r)}

\* At most one inner Subscriber is active, now and at every call made.
OneInner(r) ==
    /\ Cardinality(ActiveInners(Heap, r)) <= 1
    /\ \A i \in Idx : (log[i].e = "call" /\ subs[log[i].s].root = r) => log[i].inn <= 1

\* project is called (an inner is started) by the outer relay when no
\* inner is active, or by the completion of the inner that was the only
\* active one.
StartsWhenIdle(r) ==
    \A p \in Projected(r) :
        /\ p > 1
        /\ \/ /\ IsCall(log[p - 1], {"next"})
              /\ IsOuterSub(log[p - 1].s, r)
              /\ log[p - 1].inn = 0
           \/ /\ IsCall(log[p - 1], {"complete"})
              /\ IsInnerSub(log[p - 1].s, r)
              /\ log[p - 1].act
              /\ log[p - 1].inn = 1

\* An outer value that arrives while an inner is active is not projected
\* at once; the k-th call of project gets the k-th outer value, which was
\* emitted before; the queue holds the outer values not yet projected, in
\* the order of their arrival.
QueuedInOrder(r) ==
    /\ \A i \in Idx :
          (OuterEmitted(i, r) /\ log[i].inn = 1) =>
              (i < Len(log) => log[i + 1].e # "project")
    /\ \A p \in Projected(r) :
          /\ log[p].a = 1 + Cardinality({q \in Projected(r) : q < p})
          /\ \E i \in 1..(p - 1) : OuterEmitted(i, r) /\ log[i].a = log[p].a
    /\ \A c \in 1..Len(cells) :
          (cells[c].root = r /\ "queue" \in DOMAIN cells[c]) =>
              cells[c].queue = Ascending(Unprojected(r))

\* C34: in every reachable state of a flatMap subscription at most one
\* inner Subscriber is active; project is called only when no other inner
\* is active; an outer value that arrives while an inner is active goes to
\* the queue, and the queued values are projected in the order of their
\* arrival, none twice and none skipped.
C34_FlatMapOneInner ==
    obs.op = "flatMap" =>
        \A r \in Roots : OneInner(r) /\ StartsWhenIdle(r) /\ QueuedInOrder(r)

\* Two outer values arrived while the inner for the first was active; that
\* inner completed and the second value was projected, the third is still
\* in the queue.
C34_Witness ==
    /\ obs.op = "flatMap"
    /\ \E i, j, k, p \in Idx :
          /\ i < j /\ j < k /\ k < p
          /\ OuterEmitted(i, 1) /\ log[i].inn = 1 /\ log[i].a = 2
          /\ OuterEmitted(j, 1) /\ log[j].inn = 1 /\ log[j].a = 3
          /\ InnerCompleted(k, 1)
          /\ log[p].e = "project" /\ log[p].a = 2
    /\ \E c \in 1..Len(cells) : "queue" \in DOMAIN cells[c] /\ cells[c].queue = <<3>>

----------------------------------------------------------------------------
\* switchMap

\* The inner Subscriber s of subscription r is the InnerRank-th one made
\* for it, and log[j] is the OkRank-th call of project that returned.
InnerRank(s, r) == Cardinality({t \in 1..s : IsInnerSub(t, r)})

OkRank(j, r) == Cardinality({k \in Projected(r) : k <= j /\ log[k].res = "ok"})

\* Every call of project that returns is followed by one subscription to
\* the inner Observable it returned.
InnerPerProject ==
    \A r \in Roots :
        Cardinality({s \in 1..Len(subs) : IsInnerSub(s, r)})
            = Cardinality({k \in Projected(r) : log[k].res = "ok"})

\* Before log[p] the outer source emitted a value later than the one the
\* inner Subscriber s was made for.
Superseded(s, r, p) ==
    \E j \in Projected(r) : \E i \in Idx :
        /\ log[j].res = "ok"
        /\ OkRank(j, r) = InnerRank(s, r)
        /\ j < i
        /\ i < p
        /\ OuterEmitted(i, r)

\* Nothing is delivered for a call on a superseded inner, and every value
\* delivered is the one an inner was just given.
OnlyLatestDelivers(r) ==
    /\ FromInnerOnly(r)
    /\ \A p \in Idx :
          ( /\ IsHandler(log[p], r)
            /\ p > 1
            /\ log[p - 1].e = "call"
            /\ IsInnerSub(log[p - 1].s, r) )
          => ~Superseded(log[p - 1].s, r, p - 1)

\* A call by the producer of a superseded inner changes no variable of the
\* operator and delivers nothing.
StaleInert ==
    \A r \in Roots :
        ( /\ Len(log') > Len(log)
          /\ log'[Len(log) + 1].e = "call"
          /\ log'[Len(log) + 1].s \in 1..Len(subs)
          /\ IsInnerSub(log'[Len(log) + 1].s, r)
          /\ Superseded(log'[Len(log) + 1].s, r, Len(log) + 1) )
        => /\ cells' = cells
           /\ \A k \in (Len(log) + 1)..Len(log') : log'[k].e # "handler"

\* C19: as soon as the outer source of switchMap emits a new value the
\* previous inner subscription is cancelled: from then on no value, error
\* or completion of an earlier inner is delivered to the destination or
\* changes the operator's state; only the most recent inner delivers.
C19_SwitchMapPreempts ==
    /\ [](obs.op = "switchMap" => \A r \in Roots : OnlyLatestDelivers(r))
    /\ [][obs.op = "switchMap" => StaleInert]_vars

\* Two inners were made; the producer of the first then called it in vain,
\* and a value of the second was delivered after that.
C19_Witness ==
    /\ obs.op = "switchMap"
    /\ \E i, j \in Idx :
          /\ i < j
          /\ log[i].e = "call"
          /\ IsInnerSub(log[i].s, 1)
          /\ Superseded(log[i].s, 1, i)
          /\ IsNextOf(log[j], 1)
          /\ IsInnerSub(log[j - 1].s, 1)
          /\ log[j - 1].s > log[i].s

\* C20: in switchMap the destination completes exactly when the outer
\* source has completed and no inner is active: the completion of an inner
\* completes it only if the outer source completed before, the completion
\* of the outer source completes it only if no inner is active, and it is
\* completed at no other moment.
C20_SwitchMapCompletion ==
    (obs.op = "switchMap" /\ NoPreFired) =>
        \A r \in Roots : \A i \in Idx :
            OpenAt(i, r) =>
                /\ InnerCompleted(i, r) =>
                      (CompletesAt(i, r) <=> \E j \in 1..(i - 1) : OuterCompleted(j, r))
                /\ OuterCompleted(i, r) => (CompletesAt(i, r) <=> log[i].inn = 0)
                /\ (IsHandler(log[i], r) /\ log[i].h = "complete")
                      => /\ i > 1
                         /\ OuterCompleted(i - 1, r) \/ InnerCompleted(i - 1, r)

\* The outer source completed while an inner was active, which left the
\* destination open; the inner completed later, which completed it.
C20_Witness ==
    /\ obs.op = "switchMap"
    /\ NoPreFired
    /\ \E i, j \in Idx :
          /\ i < j
          /\ OuterCompleted(i, 1)
          /\ log[i].inn = 1
          /\ ~CompletesAt(i, 1)
          /\ InnerCompleted(j, 1)
          /\ CompletesAt(j, 1)

----------------------------------------------------------------------------
\* The terminal reducers

\* The calls of resolve and reject the reducer of subscription r made.
Settles(r) ==
    {i \in Idx : log[i].e \in {"resolve", "reject"} /\ log[i].p = r /\ log[i].h # "executor"}

\* The calls of the user's function by the reducer of subscription r.
CalledBack(r) == {i \in Idx : log[i].e = "callback" /\ log[i].r = r}

SettlesOnce(r) ==
    /\ Cardinality(Settles(r)) <= 1
    /\ \A i \in Settles(r) :
          log[i].h = "next" => \A j \in CalledBack(r) : j < i

\* C21: a terminal reducer calls resolve or reject at most once, and once
\* its next handler has made that call (a value that decides every, some
\* or find, or an exception of the user's function) the user's function is
\* never called again.
C21_SettlesOnce ==
    (obs.op \in Reducers /\ NoPreFired) => \A r \in Roots : SettlesOnce(r)

\* The user's function never called the producer before it returned.
NoReentry == \A i \in Idx : log[i].e = "callback" => log[i + 1].e = "returned"

\* The same, for a user function that does not call the producer.
SettlesOncePlain ==
    (obs.op \in Reducers /\ NoReentry) => \A r \in Roots : SettlesOnce(r)

\* The Promise of subscription r was settled by log[i]: the first call of
\* resolve or reject settles it, later ones do nothing.
SettledBy(i, r) ==
    /\ log[i].e \in {"resolve", "reject"}
    /\ log[i].p = r
    /\ \A j \in 1..(i - 1) : ~(log[j].e \in {"resolve", "reject"} /\ log[j].p = r)

Resolved(r) == \E i \in Idx : SettledBy(i, r) /\ log[i].e = "resolve"

Rejected(r) == \E i \in Idx : SettledBy(i, r) /\ log[i].e = "reject"

\* The value or error the Promise of subscription r was settled with.
Outcome(r) == log[CHOOSE i \in Idx : SettledBy(i, r)].v

\* The calls of the user's function that returned truthy.
Satisfied(r) == {i \in Idx : log[i].e = "returned" /\ log[i].r = r /\ log[i].res = "ok"}

\* The source of subscription r completed, while its Subscriber was live.
SourceCompleted(r) ==
    \E i \in Idx :
        IsCall(log[i], {"complete"}) /\ subs[log[i].s].root = r /\ log[i].act

\* C22: find(predicate) resolves with the first value for which predicate
\* returns true and with no other value, and rejects when the source
\* completes without one; it never resolves with a "not found" value.
C22_Find ==
    (obs.op = "find" /\ NoPreFired) =>
        \A r \in Roots :
            /\ Satisfied(r) # {} =>
                  /\ Resolved(r)
                  /\ Outcome(r) = log[CHOOSE i \in Satisfied(r) :
                                          \A j \in Satisfied(r) : i <= j].a
            /\ Resolved(r) => Satisfied(r) # {}
            /\ (SourceCompleted(r) /\ Satisfied(r) = {}) =>
                  (Rejected(r) /\ Outcome(r) \in {NotFound, -2})

\* The same, for a predicate that does not call the producer.
FindPlain == NoReentry => C22_Find

\* The values the source of subscription r emitted, in the order it emitted
\* them.
EmittedSeq(r) ==
    [k \in 1..Cardinality(Emitted(r)) |->
        log[CHOOSE i \in Emitted(r) : Rank(i, r) = k].a]

\* The left fold of a sequence of values: the first value seeds it.
FoldLeft(f, s) ==
    LET F[k \in 1..Len(s)] == IF k = 1 THEN s[1] ELSE Reducer(f, F[k - 1], s[k])
    IN  IF Len(s) = 0 THEN undefined ELSE F[Len(s)]

\* The user's function threw in subscription r.
Threw(r) == \E i \in Idx : log[i].e = "returned" /\ log[i].r = r /\ log[i].res = "throw"

\* C23: reduce(reducer) without an initial value takes the first value as
\* the accumulator without calling reducer, calls reducer(accumulator, v,
\* index) for each later value, and resolves on completion with the left
\* fold of the emitted values ([5, 7, 9] with + gives 21), or with the
\* unset initial value when nothing was emitted.
C23_ReduceFold ==
    (obs.op = "reduce" /\ ~obs.seeded /\ NoPreFired) =>
        \A r \in Roots :
            /\ \A i \in CalledBack(r) :
                  \E j \in Emitted(r) :
                      /\ j < i
                      /\ Rank(j, r) = log[i].i + 2
                      /\ log[i].a = log[j].a
            /\ \A j \in Emitted(r) :
                  (Rank(j, r) = 1) =>
                      ~\E i \in CalledBack(r) : log[i].a = log[j].a /\ log[i].i + 2 = 1
            /\ (SourceCompleted(r) /\ ~Threw(r)) =>
                  /\ Resolved(r)
                  /\ Outcome(r) = FoldLeft(obs.reducer, EmittedSeq(r))

\* The same, for a reducer that does not call the producer.
ReduceFoldPlain == NoReentry => C23_ReduceFold

\* The calls of the source's complete() on the live Subscriber of r.
Completions(r) ==
    {i \in Idx : IsCall(log[i], {"complete"}) /\ subs[log[i].s].root = r /\ log[i].act}

\* The values reduced before log[c]: the seed and one value for each call
\* of reducer that had returned by then.
ReducedBefore(r, c) ==
    LET E == {j \in Emitted(r) : j < c}
        R == {i \in 1..(c - 1) : log[i].e = "returned" /\ log[i].r = r}
    IN  IF E = {} THEN <<>> ELSE SubSeq(EmittedSeq(r), 1, 1 + Cardinality(R))

\* C23, amended: the Promise resolves with the accumulator as it is when
\* the source completes, the left fold of the seed and of the values whose
\* reducer call had returned by then; a value whose reducer call is still
\* running when the source completes is not in it.
C23_ReduceFoldAmended ==
    (obs.op = "reduce" /\ ~obs.seeded /\ NoPreFired) =>
        \A r \in Roots :
            /\ \A i \in CalledBack(r) :
                  \E j \in Emitted(r) :
                      /\ j < i
                      /\ Rank(j, r) = log[i].i + 2
                      /\ log[i].a = log[j].a
            /\ Cardinality(CalledBack(r)) >= Cardinality(Emitted(r)) - 1
            /\ \A c \in Completions(r) :
                  (~\E i \in 1..(c - 1) : log[i].e = "returned" /\ log[i].r = r
                                                /\ log[i].res = "throw") =>
                      /\ Resolved(r)
                      /\ Outcome(r) = FoldLeft(obs.reducer, ReducedBefore(r, c))

\* [5, 7, 9] was reduced with + in two calls of reducer, and the Promise
\* resolved with 21.
C23_Witness ==
    /\ obs.op = "reduce"
    /\ ~obs.seeded
    /\ obs.reducer = "sum"
    /\ NoPreFired
    /\ \E r \in Roots :
          /\ EmittedSeq(r) = <<5, 7, 9>>
          /\ Cardinality(CalledBack(r)) = 2
          /\ Completions(r) # {}
          /\ Resolved(r)
          /\ Outcome(r) = 21

\* A reducer call was still running when the source completed.
C23_WitnessStale ==
    /\ obs.op = "reduce"
    /\ ~obs.seeded
    /\ NoPreFired
    /\ \E r \in Roots :
          /\ Resolved(r)
          /\ Outcome(r) # FoldLeft(obs.reducer, EmittedSeq(r))

\* The example: [5, 7, 9] with + resolves to 21, and the digits come in the
\* order of emission.
ReduceExample ==
    (obs.op = "reduce" /\ ~obs.seeded /\ obs.source.op = "fromIterable" /\ NoPreFired) =>
        \A r \in Roots :
            ~Threw(r) =>
                /\ Resolved(r)
                /\ Outcome(r) = IF obs.reducer = "sum" THEN 21 ELSE 579

\* The calls of the source's error() on the live Subscriber of r.
Errors(r) ==
    {i \in Idx : IsCall(log[i], {"error"}) /\ subs[log[i].s].root = r /\ log[i].act}

\* C24: when the source emits the values of a finite sequence S and then
\* completes, toArray() resolves with a sequence equal to S: the same
\* length, the same elements, the same order.  When the source errors
\* instead, the Promise rejects with that error.
C24_ToArray ==
    (obs.op = "reduce" /\ obs.reducer = "push" /\ NoPreFired) =>
        \A r \in Roots :
            /\ \A c \in Completions(r) :
                  /\ Resolved(r)
                  /\ Len(Outcome(r)) = Len(EmittedSeq(r))
                  /\ \A k \in 1..Len(Outcome(r)) : Outcome(r)[k] = EmittedSeq(r)[k]
            /\ \A i \in Errors(r) :
                  /\ Rejected(r)
                  /\ Outcome(r) = log[i].a
            /\ Resolved(r) => Completions(r) # {}
            /\ Rejected(r) => Errors(r) # {}

\* toArray() of the source [5, 7, 9] resolved with [5, 7, 9].
C24_Witness ==
    /\ obs.op = "reduce"
    /\ obs.reducer = "push"
    /\ NoPreFired
    /\ \E r \in Roots :
          /\ Completions(r) # {}
          /\ Resolved(r)
          /\ Outcome(r) = <<5, 7, 9>>

\* toArray() of a source that emitted a value and then errored rejected
\* with the error.
ToArrayRejected ==
    /\ obs.op = "reduce"
    /\ obs.reducer = "push"
    /\ NoPreFired
    /\ \E r \in Roots :
          /\ Emitted(r) # {}
          /\ Rejected(r)
          /\ Outcome(r) = -1

\* log[i] is the firing of the token passed as options.signal to
\* subscription r, whose Promise had not been settled by then.
FiredAt(i, r) ==
    /\ log[i].e = "abort"
    /\ sigs[log[i].x].root = r
    /\ \A j \in Settles(r) : j > i

\* C25: when the token passed as options.signal fires before the source
\* completes or errors, nothing the source does afterwards settles the
\* Promise, which stays unsettled, or calls the user's function.
C25_TokenSilences ==
    obs.op \in Reducers =>
        \A r \in Roots : \A i \in Idx :
            FiredAt(i, r) =>
                /\ Settles(r) = {}
                /\ \A j \in CalledBack(r) : j < i

\* The token fired after a value and before the completion of the source.
C25_Witness ==
    /\ obs.op \in Reducers
    /\ \E r \in Roots : \E i \in Idx :
          /\ log[i].e = "abort"
          /\ FiredAt(i, r)
          /\ \E j \in Emitted(r) : j < i
          /\ \E k \in Idx : k > i /\ IsCall(log[k], {"complete"}) /\ subs[log[k].s].root = r

----------------------------------------------------------------------------
\* The iterator of an Observable

\* The calls of next() of the iterator.
Pulls == {i \in Idx : log[i].e = "iterator" /\ log[i].m = "next"}

\* The calls of throw() and return().
Forcings == {i \in Idx : log[i].e = "iterator" /\ log[i].m # "next"}

\* log[j] settles the Promise of the pull log[i]: the first resolve or
\* reject of the pair made for it.
SettlesPull(j, i) ==
    /\ log[j].e \in {"resolve", "reject"}
    /\ log[j].p = log[i].p
    /\ \A k \in 1..(j - 1) : ~(log[k].e \in {"resolve", "reject"} /\ log[k].p = log[i].p)

PullSettled(i) == \E j \in Idx : SettlesPull(j, i)

\* The pull log[i] got a value the source emitted.
PullGotValue(i) ==
    \E j \in Idx : /\ SettlesPull(j, i)
                    /\ log[j].e = "resolve"
                    /\ ~log[j].done
                    /\ \E k \in Emitted(1) : log[k].a = log[j].v

\* The pull log[i] got the end of the sequence.
PullGotEnd(i) ==
    \E j \in Idx : SettlesPull(j, i) /\ log[j].e = "resolve" /\ log[j].done

\* The pull log[i] failed with err.
PullFailed(i, err) ==
    \E j \in Idx : SettlesPull(j, i) /\ log[j].e = "reject" /\ log[j].v = err

\* C26: once the source has completed, every pull is settled: the pulls
\* pending at the completion and the later ones, with the buffered values
\* first and then with the end of the sequence.
C26_CompletionEnds ==
    (obs.op = "asyncIterator" /\ Forcings = {}) =>
        \A c \in Completions(1) : \A i \in Pulls :
            /\ PullSettled(i)
            /\ PullGotValue(i) \/ PullGotEnd(i)

\* What the iterator does instead: without return(), no pull ever gets the
\* end of the sequence.
NoEndWithoutReturn ==
    (obs.op = "asyncIterator" /\ ~\E i \in Idx : log[i].e = "iterator" /\ log[i].m = "return") =>
        \A i \in Pulls : ~PullGotEnd(i)

\* C27: once the source has errored, every pull is settled, with a value
\* buffered before the error or with a failure by the error of the source:
\* no pull stays pending.
C27_ErrorFails ==
    (obs.op = "asyncIterator" /\ Forcings = {}) =>
        \A e \in Errors(1) : \A i \in Pulls :
            /\ PullSettled(i)
            /\ PullGotValue(i) \/ PullFailed(i, log[e].a)

\* What the iterator does: a pull that fails without throw() fails with
\* the error of the source.
FailsWithSourceError ==
    (obs.op = "asyncIterator" /\ Forcings = {}) =>
        \A i \in Pulls : \A j \in Idx :
            (SettlesPull(j, i) /\ log[j].e = "reject") =>
                \E e \in Errors(1) : e < j /\ log[j].v = log[e].a

\* The pull log[i] was made after log[k], finds nothing buffered and stays
\* pending.
PendsAfter(i, k) ==
    /\ i \in Pulls
    /\ i > k
    /\ ~PullSettled(i)
    /\ cells[1].buffer = <<>>
    /\ ~cells[1].hasError
    /\ ~cells[1].isComplete

\* A pull made after the completion of the source stays pending.
PendsAfterCompletion ==
    /\ obs.op = "asyncIterator"
    /\ Forcings = {}
    /\ \E c \in Completions(1) : \E i \in Idx : PendsAfter(i, c)

\* The error of the source failed the pending pull, and a pull made after
\* it stays pending.
PendsAfterError ==
    /\ obs.op = "asyncIterator"
    /\ Forcings = {}
    /\ \E e \in Errors(1) :
          /\ \E i \in Pulls : i < e /\ PullFailed(i, log[e].a)
          /\ \E i \in Idx : PendsAfter(i, e)

\* log[f] is the first call of throw() or return().
FirstForcing(f) == f \in Forcings /\ \A g \in Forcings : f <= g

\* The pull log[i] ended as the forcing log[f] says: with the end of the
\* sequence after return(), with the failure err after throw(err).
EndedBy(i, f) ==
    IF log[f].m = "return" THEN PullGotEnd(i) ELSE PullFailed(i, log[f].a)

\* C28: after return() or throw(err) the subscription is cancelled, so that
\* nothing the source emits later is buffered or settles a pull; the pulls
\* that were pending are settled, with the end of the sequence or with the
\* failure err; and every later pull gets a value that was still buffered
\* or, the buffer drained, the end of the sequence or the failure err.
C28_Forced ==
    obs.op = "asyncIterator" =>
        \A f \in Forcings :
            FirstForcing(f) =>
                /\ \A k \in Idx :
                      k > f => /\ k \notin Emitted(1)
                               /\ log[k].e \in {"resolve", "reject"} =>
                                     log[k].h \notin {"next", "error"}
                /\ \A i \in Pulls :
                      i < f => \/ \E j \in 1..(f - 1) : SettlesPull(j, i)
                               \/ EndedBy(i, f)
                /\ \A i \in Pulls :
                      (i > f /\ \A g \in Forcings : g < i => g = f) =>
                          \/ \E j \in Idx :
                                /\ SettlesPull(j, i)
                                /\ log[j].e = "resolve"
                                /\ ~log[j].done
                                /\ \E k \in Emitted(1) : k < f /\ log[k].a = log[j].v
                          \/ EndedBy(i, f)

\* The same, when the source had not errored before.
ForcedPlain == (\A e \in Errors(1) : \A f \in Forcings : f < e) => C28_Forced

----------------------------------------------------------------------------
\* The buffer and the pending pulls of the iterator

\* C35: in every reachable state of an iterator the buffer of values and
\* the list of pending pulls are not both non-empty, whatever the order of
\* the pulls and the emissions of the source, a source that emits during
\* the subscription made by the first pull included.
C35_Rendezvous ==
    (obs.op = "asyncIterator" /\ Forcings = {}) =>
        ~(Len(cells[1].buffer) > 0 /\ Len(cells[1].deferred) > 0)

\* The source emitted after the subscribe procedure had returned.
EmitsLater == \A i \in Emitted(1) : log[i].d = 0

\* What holds: the two are never both non-empty when the source emits
\* nothing during subscribe.
RendezvousLater == EmitsLater => C35_Rendezvous

\* The first pull subscribed to a source that emitted during subscribe:
\* the values are in the buffer and the pull is pending.
BufferedAndPending ==
    /\ obs.op = "asyncIterator"
    /\ Cardinality(Pulls) = 1
    /\ Forcings = {}
    /\ Len(cells[1].buffer) > 0
    /\ Len(cells[1].deferred) > 0

\* log[i] is the PullRank(i)-th call of next().
PullRank(i) == Cardinality({j \in Pulls : j <= i})

\* C36: the k-th call of next() is settled with the k-th value the source
\* emitted, and it is settled in every state in which that value exists:
\* no value is returned twice, skipped or returned out of order.
C36_PullOrder ==
    (obs.op = "asyncIterator" /\ Forcings = {}) =>
        \A i \in Pulls :
            /\ \A j \in Idx :
                  (SettlesPull(j, i) /\ log[j].e = "resolve" /\ ~log[j].done) =>
                      /\ PullRank(i) <= Len(EmittedSeq(1))
                      /\ log[j].v = EmittedSeq(1)[PullRank(i)]
            /\ PullRank(i) <= Len(EmittedSeq(1)) => PullGotValue(i)

\* What holds when the source emits nothing during subscribe.
PullOrderLater == EmitsLater => C36_PullOrder

\* The source emitted 1 and 2 during the subscription made by the first
\* pull: that pull is pending and the second pull got 1.
SecondPullGotFirst ==
    /\ obs.op = "asyncIterator"
    /\ Forcings = {}
    /\ \E i, k \in Pulls : \E j \in Idx :
          /\ PullRank(i) = 1
          /\ ~PullSettled(i)
          /\ PullRank(k) = 2
          /\ SettlesPull(j, k)
          /\ log[j].e = "resolve"
          /\ log[j].v = EmittedSeq(1)[1]

----------------------------------------------------------------------------
\* Observable.from of an iterable

\* C29: once the Subscriber is no longer active, the loop of
\* Observable.from(iterable or async iterable) takes no further value from
\* the iterator: from(x).take(n) leaves the values of x after the n-th
\* where they are.
C29_FromStops ==
    NoPreFired =>
        \A i \in Idx : (log[i].e = "iterate" /\ ~log[i].done) => log[i].act

\* What the loop of an iterable does: it goes through every value of it,
\* whatever became of the Subscriber.
IteratesAll ==
    (obs \in FromObservables /\ obs.op = "take" /\ obs.source.op = "fromIterable"
        /\ NumRoots = 1 /\ NoThrowEvents) =>
        \A k \in 1..4 : \E i \in Idx : log[i].e = "iterate" /\ log[i].i = k

\* The loop of an async iterable took a value from the iterator after the
\* token had fired.
ForAwaitIteratesAborted ==
    /\ obs.op = "fromAsyncIterable"
    /\ \E i \in Idx : \E j \in Idx :
          /\ log[i].e = "abort"
          /\ j > i
          /\ log[j].e = "iterate"
          /\ ~log[j].done
          /\ ~log[j].act

\* No value reaches the observer once the Subscriber is inactive.
FromDeliversWhileActive ==
    \A i \in Idx :
        (log[i].e = "iterate" /\ ~log[i].act) =>
            \A j \in Idx : (j > i /\ log[j].e = "handler") => log[j].h # "next"

----------------------------------------------------------------------------
\* Exceptions of the terminal handlers

\* log[i] is the run of an error or complete handler of the user that
\* threw.
TerminalThrew(i) ==
    /\ log[i].e = "handler"
    /\ log[i].h \in {"error", "complete"}
    /\ i < Len(log)
    /\ log[i + 1].e = "throw"
    /\ log[i + 1].d = log[i].d + 1

\* log[j] belongs to the same entry into the program as log[i] before it.
SameEntry(i, j) ==
    /\ j > i
    /\ \A k \in (i + 1)..(j - 1) :
          /\ log[k].e \notin {"subscribe", "abort", "uncaught"}
          /\ log[k].e = "call" => log[k].d > 0

\* C30: an exception thrown by the error or the complete handler of the
\* user is reported, and does not reach the code that called
\* subscriber.error() or subscriber.complete().
C30_TerminalThrowReported ==
    NoPreFired =>
        \A i \in Idx :
            TerminalThrew(i) =>
                /\ \E j \in Idx : SameEntry(i, j) /\ log[j].e = "report" /\ log[j].a = -2
                /\ \A j \in Idx : SameEntry(i, j) => log[j].e # "uncaught"

\* What Subscriber does: the exception of a handler that a call of the
\* producer ran leaves that call, unreported.
TerminalThrowPropagates ==
    \A i \in Idx :
        (TerminalThrew(i) /\ log[i].d = 0) =>
            /\ \E j \in Idx : /\ SameEntry(i, j)
                               /\ log[j].e = "uncaught"
                               /\ log[j].in = "call"
                               /\ log[j].a = -2
            /\ \A j \in Idx : SameEntry(i, j) => log[j].e # "report"

\* C39: when the error or the complete handler of the observer throws,
\* the Subscriber's controller is aborted all the same: its signal is
\* aborted and every teardown registered on it has run exactly once.
C39_TeardownDespiteThrow ==
    NoPreFired =>
        \A r \in Roots : \A k \in Idx :
            (IsTerminal(log[k], r) /\ TerminalThrew(k)) =>
                /\ sigs[subs[UserSub(r)].own].aborted
                /\ sigs[subs[UserSub(r)].signal].aborted
                /\ \A i \in Idx : \A t \in Teardowns :
                      Registered(i, t, UserSub(r)) =>
                          Cardinality(Runs(t, UserSub(r))) = 1

\* What Subscriber does: once a terminal handler has thrown, its own
\* controller is never aborted and no teardown registered on it runs.
NoAbortAfterThrow ==
    \A r \in Roots : \A k \in Idx :
        (IsTerminal(log[k], r) /\ TerminalThrew(k)) =>
            /\ ~sigs[subs[UserSub(r)].own].aborted
            /\ \A t \in Teardowns : Runs(t, UserSub(r)) = {}

\* A teardown was registered, the complete handler threw, and the
\* teardown has not run.
TeardownSkippedByThrow ==
    \E r \in Roots : \E i, k \in Idx : \E t \in Teardowns :
        /\ NoPreFired
        /\ Registered(i, t, UserSub(r))
        /\ i < k
        /\ IsTerminal(log[k], r)
        /\ TerminalThrew(k)
        /\ Runs(t, UserSub(r)) = {}
        /\ ~sigs[subs[UserSub(r)].signal].aborted

----------------------------------------------------------------------------
\* Exceptions of the next handler

\* log[i] is the run of a next handler of the user that threw.
NextThrew(i) ==
    /\ log[i].e = "handler"
    /\ log[i].h = "next"
    /\ i > 1
    /\ i < Len(log)
    /\ log[i - 1].e = "call"
    /\ log[i + 1].e = "throw"
    /\ log[i + 1].d = log[i].d + 1

\* Between log[i] and log[k] Subscriber s was closed: the producer called
\* error() or complete() on it, or the token of its subscription fired.
ClosedBetween(s, i, k) ==
    \E m \in i..k :
        \/ log[m].e = "abort" /\ sigs[log[m].x].root = subs[s].root
        \/ IsCall(log[m], {"error", "complete"}) /\ log[m].s = s

\* C31: an exception thrown by the next handler leaves subscriber.next()
\* and reaches the producer, and the Subscriber is as it was: no handler is
\* run for it, the Subscriber stays active and the later values are
\* delivered.
C31_NextThrowPropagates ==
    \A i \in Idx :
        NextThrew(i) =>
            /\ i + 2 <= Len(log)
            /\ log[i + 2].e = "uncaught"
            /\ log[i + 2].a = -2
            /\ \A k \in Idx :
                  (/\ k > i
                   /\ IsCall(log[k], {"next"})
                   /\ log[k].s = log[i - 1].s
                   /\ ~ClosedBetween(log[k].s, i, k)) =>
                      /\ log[k].act
                      /\ k < Len(log)
                      /\ log[k + 1].e = "handler"
                      /\ log[k + 1].h = "next"

\* The next handler threw, and the next value the producer emitted was
\* delivered.
C31_Witness ==
    \E i \in Idx : \E k \in Idx :
        /\ NextThrew(i)
        /\ k > i + 2
        /\ IsCall(log[k], {"next"})
        /\ log[k].s = log[i - 1].s
        /\ log[k].act
        /\ k < Len(log)
        /\ log[k + 1].e = "handler"
        /\ log[k + 1].h = "next"

----------------------------------------------------------------------------
\* The closing sequence of error() and complete()

\* log[k] is a call of error() or complete() on the active Subscriber of
\* the user's observer.
Closes(k) ==
    /\ IsCall(log[k], {"error", "complete"})
    /\ log[k].act
    /\ subs[log[k].s].observer.kind = "user"

\* log[m] is a step of user code that the handler run by the call log[k]
\* made.
HandlerStep(k, m) ==
    /\ SameEntry(k, m)
    /\ log[m].e \in {"call", "throw"}
    /\ log[m].d > log[k].d

\* C32: error() and complete() on an active Subscriber mark it inactive,
\* then run the handler, once, and abort the controller only after the
\* handler has returned: the calls the handler makes find the Subscriber
\* inactive, and every teardown runs after the handler.
C32_ClosingSequence ==
    \A k \in Idx :
        Closes(k) =>
            /\ k < Len(log)
            /\ log[k + 1].e = "handler"
            /\ log[k + 1].h = log[k].op
            /\ log[k + 1].o = subs[log[k].s].root
            /\ Cardinality({i \in Idx : IsTerminal(log[i], subs[log[k].s].root)}) = 1
            /\ \A m \in Idx :
                  (m > k /\ log[m].e = "call" /\ log[m].s = log[k].s) => ~log[m].act
            /\ \A p \in Idx : \A t \in Teardowns :
                  DeferredRun(p, t, log[k].s) =>
                      /\ p > k + 1
                      /\ \A m \in Idx : HandlerStep(k, m) => m < p

\* complete() ran the handler, which called next, complete and error on
\* the Subscriber, and the registered teardown ran afterwards.
C32_Witness ==
    \E k \in Idx : \E p \in Idx : \E t \in Teardowns :
        /\ Closes(k)
        /\ DeferredRun(p, t, log[k].s)
        /\ \E m \in Idx : HandlerStep(k, m) /\ log[m].e = "call" /\ log[m].op = "next"

----------------------------------------------------------------------------
\* Merged signals

Merged == {m \in 1..Len(sigs) : sigs[m].of # <<>>}

Inputs(m) == {sigs[m].of[1], sigs[m].of[2]}

\* The listener of the merged signal m is attached to the signal x.
Follows(m, x) ==
    \E k \in 1..Len(sigs[x].listeners) :
        /\ sigs[x].listeners[k].kind = "handleAbort"
        /\ sigs[x].listeners[k].ac = m

\* A merged signal has fired exactly when one of its inputs has, and it
\* has then no listener left on any input.
MergedFollows ==
    NoPreFired =>
        \A m \in Merged :
            /\ sigs[m].aborted <=> \E x \in Inputs(m) : sigs[x].aborted
            /\ sigs[m].aborted => \A x \in Inputs(m) : ~Follows(m, x)

\* A merged signal that has fired stays as it is in every later step.
MergedInert ==
    \A m \in Merged : sigs[m].aborted => (m <= Len(sigs') /\ sigs'[m] = sigs[m])

\* C33: in every reachable state a signal merged by useSignalAll has fired
\* exactly when one of its inputs has fired; once it has fired, its
\* listener is detached from every input, and no later step (the firing of
\* another input included) changes it.
C33_MergedToken == []MergedFollows /\ [][MergedInert]_vars

\* The Subscriber closed itself, so the merged signal fired through the
\* Subscriber's own signal, and the caller's token fired afterwards.
C33_Witness ==
    /\ NoPreFired
    /\ \E m \in Merged :
          /\ sigs[m].aborted
          /\ \A x \in Inputs(m) : sigs[x].aborted
          /\ \E i, j \in Idx :
                /\ i < j
                /\ IsCall(log[i], {"error", "complete"})
                /\ log[i].act
                /\ subs[log[i].s].signal = m
                /\ log[j].e = "abort"
                /\ log[j].x \in Inputs(m)

----------------------------------------------------------------------------
\* Cancellation of the source of an operator

\* The observer of subscription r was closed at log[k]: its error or
\* complete handler ran, or the caller's token fired.
ClosedAt(k, r) == IsTerminal(log[k], r) \/ TokenFired(k, r)

\* log[j] is a call the producer made from outside any callback, on a
\* Subscriber of subscription r.
CalledLater(j, r) ==
    /\ IsCall(log[j], {"next", "error", "complete"})
    /\ log[j].d = 0
    /\ subs[log[j].s].root = r

\* The call log[j] found its Subscriber inactive and ran nothing: no
\* handler, no project function.
Inert(j) ==
    /\ ~log[j].act
    /\ j < Len(log) => log[j + 1].e \notin {"handler", "project", "throw", "report"}

\* C37: once the observer of a subscription made through map, filter,
\* take, drop, flatMap or switchMap has been closed, by a terminal event
\* or by the caller's token, every Subscriber of the subscription (the one
\* given to the source, the ones given to inner Observables) is inactive
\* in every later state, and the calls the producer makes afterwards run
\* no relay handler and no user callback.
C37_UpstreamCancelled ==
    \A r \in Roots : \A k \in Idx :
        ClosedAt(k, r) =>
            /\ \A s \in 1..Len(subs) : subs[s].root = r => ~isActive(Heap, s)
            /\ \A j \in Idx : (j > k /\ CalledLater(j, r)) => Inert(j)

\* The same, when the token had not fired before subscribe() and no
\* handler of the observer throws.
UpstreamCancelledPlain == (NoPreFired /\ NoThrowEvents) => C37_UpstreamCancelled

\* The error handler of the observer threw; afterwards the producer
\* emitted a value on a Subscriber that was still active, and the project
\* function was called with it.
ProjectsAfterClose ==
    \E r \in Roots : \E k, j \in Idx :
        /\ NoPreFired
        /\ IsTerminal(log[k], r)
        /\ TerminalThrew(k)
        /\ j > k
        /\ CalledLater(j, r)
        /\ log[j].act
        /\ j < Len(log)
        /\ log[j + 1].e = "project"

----------------------------------------------------------------------------
\* Teardowns of the source of an operator

\* take completed the observer of subscription r at log[c]: the complete
\* handler ran on a value of the source, not on the source's completion.
ClosedEarly(c, r) ==
    /\ IsHandler(log[c], r)
    /\ log[c].h = "complete"
    /\ \A k \in 1..(c - 1) :
          ~(IsCall(log[k], {"complete", "error"}) /\ subs[log[k].s].root = r /\ log[k].act)

\* C38: when take(n) completes the observer after the n-th value, every
\* teardown the subscribe procedure of the source registered on its
\* Subscriber has run exactly once.
C38_UpstreamTeardown ==
    (obs.op = "take" /\ NoThrow) =>
        \A r \in Roots : \A i, c \in Idx : \A t \in Teardowns :
            \A s \in 1..Len(subs) :
                (/\ subs[s].root = r
                 /\ Registered(i, t, s)
                 /\ i < c
                 /\ ClosedEarly(c, r))
                    => Cardinality(Runs(t, s)) = 1

\* What happens: the teardown of the source has not run when take has
\* completed the observer and the Subscriber of the source is inactive.
SourceTeardownSkipped ==
    /\ obs.op = "take"
    /\ NoThrow
    /\ \E r \in Roots : \E i, c \in Idx : \E t \in Teardowns : \E s \in 1..Len(subs) :
          /\ subs[s].root = r
          /\ Registered(i, t, s)
          /\ i < c
          /\ ClosedEarly(c, r)
          /\ ~isActive(Heap, s)
          /\ Runs(t, s) = {}

\* The teardown of the source runs once when the source itself completes
\* or errors.
SourceTeardownOnTerminal ==
    (obs.op = "take" /\ NoThrow) =>
        \A i, c \in Idx : \A t \in Teardowns : \A s \in 1..Len(subs) :
            (/\ Registered(i, t, s)
             /\ IsCall(log[c], {"complete", "error"})
             /\ log[c].s = s
             /\ log[c].act)
                => Cardinality(Runs(t, s)) = 1

----------------------------------------------------------------------------
\* reduce in the two drafts

\* The call of reduce of subscription r is over: its source completed, or
\* its executor threw.
ReduceOver(r) ==
    \/ SourceCompleted(r)
    \/ \E i \in Idx : log[i].e = "reject" /\ log[i].p = r /\ log[i].h = "executor"

\* Both drafts were called, the source gave both the same values and
\* completed, the reducer returned each time and no token fired.
SameRun ==
    /\ NumRoots = 2
    /\ SourceCompleted(1)
    /\ ReduceOver(2)
    /\ SourceCompleted(2) => EmittedSeq(2) = EmittedSeq(1)
    /\ NoThrowEvents
    /\ ~Threw(1) /\ ~Threw(2)
    /\ \A i \in Idx : log[i].e # "abort"

\* C40: called with the same completing source, reducer and initial value
\* (or none), reduce of observable.ts and reduce of observable.js resolve,
\* with the same value.
C40_DraftsAgree ==
    (obs \in DraftObservables /\ SameRun) =>
        /\ Resolved(1)
        /\ Resolved(2)
        /\ Outcome(1) = Outcome(2)

\* What holds: the two agree when the call passes options.
DraftsAgreeWithOptions == obs.options # "undefined" => C40_DraftsAgree

\* The token passed to the draft fired: the Subscriber of its source is
\* closed.
DraftFollowsToken ==
    \A i \in Idx :
        (log[i].e = "abort" /\ sigs[log[i].x].root = 2) =>
            \A s \in 1..Len(subs) : subs[s].root = 2 => ~isActive(Heap, s)

\* What the draft does without options: its Promise is rejected with the
\* TypeError of the executor, whatever the source does.
DraftRejectsWithoutOptions ==
    (obs \in DraftObservables /\ obs.options = "undefined" /\ NumRoots = 2) =>
        Rejected(2) /\ Outcome(2) = TypeError

\* reduce(reducer, 0) on a source that emits 1, 2 and completes: the Promise
\* of observable.js is resolved with the fold, the Promise of
\* observable.ts is rejected.
DraftsDiffer ==
    /\ obs \in DraftObservables
    /\ obs.seeded
    /\ obs.options = "undefined"
    /\ SameRun
    /\ EmittedSeq(1) = <<1, 2>>
    /\ Resolved(1)
    /\ Outcome(1) = Reducer(obs.reducer, Reducer(obs.reducer, 0, 1), 2)
    /\ Rejected(2)
    /\ Outcome(2) = TypeError

\* Both drafts resolved with the fold of the values 1, 2 from the initial
\* value.
DraftsAgreeOnFold ==
    /\ obs \in DraftObservables
    /\ obs.options # "undefined"
    /\ SameRun
    /\ EmittedSeq(1) = <<1, 2>>
    /\ Resolved(1) /\ Resolved(2)
    /\ Outcome(2) = Reducer(obs.reducer, Reducer(obs.reducer, 0, 1), 2)

----------------------------------------------------------------------------
\* Independence of subscriptions

\* The subscription an event of the history belongs to (0: the event names
\* none), SB and SG the Subscribers and signals when it happened.
EventRoot(ev, SB, SG) ==
    CASE ev.e = "handler"                -> ev.o
      [] ev.e \in {"call", "teardown"}   -> SB[ev.s].root
      [] ev.e \in {"subscribe", "project"} -> ev.r
      [] ev.e = "abort"                  -> SG[ev.x].root
      [] OTHER                           -> 0

\* The objects of subscription b are the same in heap `new` as in `old`,
\* and it got no new one.
Untouched(old, new, b) ==
    /\ Len(new) >= Len(old)
    /\ \A i \in 1..Len(old) : old[i].root = b => new[i] = old[i]
    /\ \A i \in (Len(old) + 1)..Len(new) : new[i].root # b

\* A step of the program works for one subscription: every other one
\* keeps its Subscribers, signals (with their listeners) and closure
\* variables, and nothing is delivered to it or called on it.
Frame ==
    /\ Len(log') > Len(log)
    /\ SubSeq(log', 1, Len(log)) = log
    /\ LET a == EventRoot(log'[Len(log) + 1], subs', sigs')
       IN  \A b \in (1..cfg.maxSubs) \ {a} :
               /\ Untouched(subs, subs', b)
               /\ Untouched(sigs, sigs', b)
               /\ Untouched(cells, cells', b)
               /\ \A i \in (Len(log) + 1)..Len(log') :
                     EventRoot(log'[i], subs', sigs') # b

\* drop(n) of subscription r forwards the values its own source emitted
\* after the first n.
DropSkipsFirstN(r, n) ==
    \A i \in Emitted(r) :
        IF Rank(i, r) > n
        THEN i < Len(log) /\ IsNextOf(log[i + 1], r) /\ log[i + 1].a = log[i].a
        ELSE i < Len(log) => ~IsNextOf(log[i + 1], r)

\* Each subscription counts for itself.
OwnState ==
    \A r \in Roots :
        /\ obs.op = "take" => TakeForwardsFirstN(r, obs.count)
        /\ obs.op = "drop" => DropSkipsFirstN(r, obs.count)
        /\ IndexFromZero(r)

\* C9: subscribing twice to an Observable built with take, drop, map,
\* filter, flatMap or switchMap gives each subscription its own
\* Subscribers and operator state (counter, index, queue): a step made for
\* one subscription changes no object of the other, delivers nothing to
\* it, and each subscription's counter and index count only its own
\* values.
C9_Independent == []OwnState /\ [][Frame]_vars

\* Both subscriptions are open on different operator state, the first was
\* then closed, and the second was delivered a value after that.
C9_Witness ==
    /\ NumRoots = 2
    /\ \E c1, c2 \in 1..Len(cells) :
          /\ cells[c1].root = 1
          /\ cells[c2].root = 2
          /\ [cells[c1] EXCEPT !.root = 2] # cells[c2]
    /\ \E j, k \in Idx :
          /\ j < k
          /\ IsTerminal(log[j], 1)
          /\ IsNextOf(log[k], 2)

====
